---- MODULE Spec2Model ----
(***************************************************************************)
(* Verification model of the CRX extraction pipeline (crx-util).           *)
(*                                                                         *)
(* Strings that the code inspects character by character (paths) are       *)
(* sequences of one-character strings, so that the regular-expression      *)
(* rewrites of PathUtils.join and the segment walk of PathUtils.normalize  *)
(* are computed as the code computes them.                                 *)
(***************************************************************************)
EXTENDS Integers, Sequences, FiniteSets, TLC

(***************************************************************************)
(* Bounds of the model.                                                    *)
(***************************************************************************)
\* longest candidate path, in segments, handed to validatePath
MaxSegs == 5

(***************************************************************************)
(* Character sequences.                                                    *)
(***************************************************************************)
SLASH == "/"
DOT == "."

\* the empty string
EmptyStr == << >>

\* s.startsWith(prefix)
StartsWith(s, prefix) ==
  /\ Len(prefix) <= Len(s)
  /\ SubSeq(s, 1, Len(prefix)) = prefix

\* the text of s from (1-based) position i to its end
From(s, i) == SubSeq(s, i, Len(s))

\* s.lastIndexOf('/'), 1-based, 0 when there is none
RECURSIVE LastSlashFrom(_, _)
LastSlashFrom(s, i) ==
  IF i = 0 THEN 0
  ELSE IF s[i] = SLASH THEN i
  ELSE LastSlashFrom(s, i - 1)

LastSlash(s) == LastSlashFrom(s, Len(s))

\* length of the run of non-slash characters at the head of s
RECURSIVE NameRun(_)
NameRun(s) ==
  IF s = EmptyStr \/ Head(s) = SLASH THEN 0
  ELSE 1 + NameRun(Tail(s))

\* segments.join('/')
RECURSIVE JoinWithSlash(_)
JoinWithSlash(segments) ==
  IF segments = << >> THEN EmptyStr
  ELSE IF Len(segments) = 1 THEN segments[1]
  ELSE segments[1] \o <<SLASH>> \o JoinWithSlash(Tail(segments))

\* path.split('/')
RECURSIVE Split(_)
Split(s) ==
  LET k == NameRun(s) IN
  IF k = Len(s) THEN <<s>>
  ELSE <<SubSeq(s, 1, k)>> \o Split(From(s, k + 2))

\* s.replace(/\/+/g, '/')
RECURSIVE CollapseSlashes(_)
CollapseSlashes(s) ==
  IF s = EmptyStr THEN EmptyStr
  ELSE IF Len(s) >= 2 /\ s[1] = SLASH /\ s[2] = SLASH THEN CollapseSlashes(Tail(s))
  ELSE <<Head(s)>> \o CollapseSlashes(Tail(s))

\* s.replace(/\/\.\//g, '/'): matches do not overlap, the scan resumes
\* after the three characters of a match
RECURSIVE RemoveDotSlash(_)
RemoveDotSlash(s) ==
  IF s = EmptyStr THEN EmptyStr
  ELSE IF StartsWith(s, <<SLASH, DOT, SLASH>>) THEN <<SLASH>> \o RemoveDotSlash(From(s, 4))
  ELSE <<Head(s)>> \o RemoveDotSlash(Tail(s))

\* s.replace(/([^/]+)\/\.\.\//g, ''): a run of non-slash characters (of
\* any content, ".." included) followed by "/../" is deleted, and the scan
\* resumes after the match
RECURSIVE ResolveDotDotSlash(_)
ResolveDotDotSlash(s) ==
  IF s = EmptyStr THEN EmptyStr
  ELSE LET k == NameRun(s) IN
       IF k >= 1 /\ StartsWith(From(s, k + 1), <<SLASH, DOT, DOT, SLASH>>)
       THEN ResolveDotDotSlash(From(s, k + 5))
       ELSE <<Head(s)>> \o ResolveDotDotSlash(Tail(s))

\* s.replace(/\/$/, '')
StripTrailingSlash(s) ==
  IF s # EmptyStr /\ s[Len(s)] = SLASH THEN SubSeq(s, 1, Len(s) - 1) ELSE s

\* segments.filter(s => s.length > 0)
NonEmpty(segments) == SelectSeq(segments, LAMBDA x : Len(x) > 0)

\* PathUtils.join(...segments)
Join(segments) ==
  StripTrailingSlash(
    ResolveDotDotSlash(
      RemoveDotSlash(
        CollapseSlashes(JoinWithSlash(NonEmpty(segments))))))

\* PathUtils.dirname(path)
Dirname(path) ==
  LET lastSlash == LastSlash(path) IN
  IF lastSlash = 0 THEN <<DOT>>
  ELSE IF lastSlash = 1 THEN <<SLASH>>
  ELSE SubSeq(path, 1, lastSlash - 1)

\* a loop that keeps a ".." for which the result holds nothing to remove
RECURSIVE NormalizePartsUnclamped(_, _)
NormalizePartsUnclamped(parts, result) ==
  IF parts = << >> THEN result
  ELSE LET part == Head(parts) IN
       IF part = <<DOT>> \/ part = EmptyStr THEN NormalizePartsUnclamped(Tail(parts), result)
       ELSE IF part = <<DOT, DOT>> /\ result # << >>
            THEN NormalizePartsUnclamped(Tail(parts), SubSeq(result, 1, Len(result) - 1))
            ELSE NormalizePartsUnclamped(Tail(parts), Append(result, part))

\* the loop of PathUtils.normalize: the result stack after the parts
RECURSIVE NormalizeParts(_, _)
NormalizeParts(parts, result) ==
  IF parts = << >> THEN result
  ELSE LET part == Head(parts) IN
       IF part = <<DOT>> \/ part = EmptyStr THEN NormalizeParts(Tail(parts), result)
       ELSE IF part = <<DOT, DOT>>
            THEN NormalizeParts(Tail(parts),
                                IF result = << >> THEN result
                                ELSE SubSeq(result, 1, Len(result) - 1))
            ELSE NormalizeParts(Tail(parts), Append(result, part))

\* PathUtils.normalize(path)
Normalize(path) ==
  LET result == NormalizeParts(Split(path), << >>)
      normalized == (IF StartsWith(path, <<SLASH>>) THEN <<SLASH>> ELSE EmptyStr)
                    \o JoinWithSlash(result)
  IN IF normalized = EmptyStr THEN <<DOT>> ELSE normalized


(***************************************************************************)
(* Configuration.                                                          *)
(***************************************************************************)
\* process.cwd() captured by the PathValidator constructor
workingDirectory == <<"/", "w">>

\* '_extensions'
DEFAULT_EXTENSIONS_DIR == <<"e">>

DEFAULT_CONFIG ==
  [ maxFileSize |-> 500 * 1024 * 1024,
    downloadTimeout |-> 30000,
    maxExtractionRatio |-> 100,
    maxExtractedFiles |-> 10000,
    maxExtractedSize |-> 1024 * 1024 * 1024,
    allowedOutputPaths |-> << <<DOT>> >>,
    extensionsDir |-> DEFAULT_EXTENSIONS_DIR ]

\* extensionsDir '/tmp/crx-test', allowedOutputPaths ['.', '/tmp']
testConfig ==
  [ DEFAULT_CONFIG EXCEPT !.extensionsDir = <<"/", "t", "/", "c">>,
                          !.allowedOutputPaths = << <<DOT>>, <<"/", "t">> >> ]

\* a configuration with every ceiling overridden
strictConfig ==
  [ DEFAULT_CONFIG EXCEPT !.maxFileSize = 17,
                          !.maxExtractionRatio = 2,
                          !.maxExtractedFiles = 3,
                          !.maxExtractedSize = 9 ]

\* a configuration whose only allowed output path is the filesystem root
rootConfig == [DEFAULT_CONFIG EXCEPT !.allowedOutputPaths = << <<SLASH>> >>]

Configs == {DEFAULT_CONFIG, testConfig, strictConfig, rootConfig}

(***************************************************************************)
(* PathValidator.                                                          *)
(***************************************************************************)
\* the constructor's map over allowedPaths
ResolveAllowedPath(path) ==
  IF path = <<DOT>> THEN workingDirectory
  ELSE IF ~StartsWith(path, <<SLASH>>) THEN Join(<<workingDirectory, path>>)
  ELSE path

resolvedAllowedPaths(allowedPaths) ==
  [i \in 1..Len(allowedPaths) |-> ResolveAllowedPath(allowedPaths[i])]

\* validatePath(path) without baseDir: the normalized path it checks and returns
ValidatePathNormalized(path) ==
  LET resolved == IF ~StartsWith(path, <<SLASH>>)
                  THEN Join(<<workingDirectory, path>>)
                  ELSE path
  IN Normalize(resolved)

\* validatePath's isAllowed
IsAllowed(normalized, allowedPaths) ==
  \E i \in 1..Len(allowedPaths) :
    LET allowedNormalized == Normalize(resolvedAllowedPaths(allowedPaths)[i]) IN
    \/ StartsWith(normalized, allowedNormalized \o <<SLASH>>)
    \/ normalized = allowedNormalized

\* TRUE iff validatePath(path) returns, FALSE iff it throws SecurityError
ValidatePathOk(path, allowedPaths) ==
  IsAllowed(ValidatePathNormalized(path), allowedPaths)


\* validateZipSecurity with the file-count ceiling compared by >=
ValidateZipSecurityInclusive(info, cfg) ==
  IF info.uncompressedSize > cfg.maxExtractionRatio * info.compressedSize THEN "ratio"
  ELSE IF info.fileCount >= cfg.maxExtractedFiles THEN "count"
  ELSE IF info.uncompressedSize > cfg.maxExtractedSize THEN "size"
  ELSE "pass"

(***************************************************************************)
(* ArchiveSecurityInspector: validateZipSecurity on an archive summary.    *)
(* The code compares the quotient uncompressedSize / compressedSize with   *)
(* the ceiling; for integers below 2^53 the quotient exceeds an integer    *)
(* ceiling exactly when uncompressedSize > ceiling * compressedSize.       *)
(***************************************************************************)
ValidateZipSecurity(info, cfg) ==
  IF info.uncompressedSize > cfg.maxExtractionRatio * info.compressedSize THEN "ratio"
  ELSE IF info.fileCount > cfg.maxExtractedFiles THEN "count"
  ELSE IF info.uncompressedSize > cfg.maxExtractedSize THEN "size"
  ELSE "pass"

\* the error kind validateZipSecurity throws for a verdict
SecurityVerdictError(verdict) ==
  IF verdict = "pass" THEN "none"
  ELSE IF verdict = "infoFail" THEN "ExtractionError"
  ELSE "SecurityError"

(***************************************************************************)
(* Inputs.                                                                 *)
(***************************************************************************)
\* the outputDir argument of extract(); the empty string selects the default
OutputDirArgs ==
  { EmptyStr,
    <<DOT>>,
    <<"o">>,
    <<"o", SLASH, "s">>,
    <<DOT, DOT>>,
    <<DOT, SLASH, DOT, SLASH, DOT, DOT, SLASH, "o">>,
    <<"/", "t", "/", "o">>,
    <<"/", "x">>,
    <<SLASH>> }

\* extensionInfo.name after acquisition
extensionName == <<"n">>

\* summaries that unzip -l and stat can report for a staged archive
FileCounts == {1, 3, 4, 10000, 10001}
UncompressedSizes == {8, 9, 10, 11, 100, 101, 500, 501}

\* the summaries of a staged file of the given size
ZipInfos(size) ==
  [ fileCount : FileCounts,
    uncompressedSize : UncompressedSizes,
    compressedSize : {size} ]

NoZipInfo == [fileCount |-> 0, uncompressedSize |-> 0, compressedSize |-> 0]

\* segments of candidate paths
SegAlphabet == { <<"a">>, <<DOT>>, <<DOT, DOT>> }

SegLists == UNION { [1..n -> SegAlphabet] : n \in 1..MaxSegs }

\* every relative and absolute path of at most MaxSegs segments
CandidatePaths ==
  { JoinWithSlash(l) : l \in SegLists } \cup { <<SLASH>> \o JoinWithSlash(l) : l \in SegLists }

(***************************************************************************)
(* ByteReader and ContainerHeaderParser.  A buffer is a sequence of bytes. *)
(* A 32-bit unsigned value is kept as two 16-bit halves, value = hi * 2^16 *)
(* + lo, so that sums of header fields are exact as they are in the code,  *)
(* whose numbers are doubles.                                              *)
(***************************************************************************)
CRX_MAGIC == 875721283
CRX_VERSION_2 == 2
CRX_VERSION_3 == 3

Half == 256 * 256

\* this.buffer before loadInput has assigned it
NoBuffer == <<-1>>

NoHeader == [version |-> 0, zipOffset |-> 0]

U32(n) == [hi |-> n \div Half, lo |-> n % Half]

\* the bounds check of readUInt32LEAt
Underrun(buf, off) == off + 4 > Len(buf)

\* a reader without the final >>> 0: a set top bit makes the value negative
ReadInt32LEAt(buf, off) ==
  [hi |-> buf[off + 3] + 256 * buf[off + 4] - (IF buf[off + 4] >= 128 THEN Half ELSE 0),
   lo |-> buf[off + 1] + 256 * buf[off + 2]]

\* a reader taking the first byte as the most significant one
ReadUInt32BEAt(buf, off) ==
  [hi |-> buf[off + 2] + 256 * buf[off + 1], lo |-> buf[off + 4] + 256 * buf[off + 3]]

\* readUInt32LEAt(buffer, offset): (b0 | b1 << 8 | b2 << 16 | b3 << 24) >>> 0
ReadUInt32LEAt(buf, off) ==
  [hi |-> buf[off + 3] + 256 * buf[off + 4], lo |-> buf[off + 1] + 256 * buf[off + 2]]

\* a sum kept in 32 bits, wrapping at 2^32
ZipOffsetSumWrapping(off, a, b) ==
  LET low == off + a.lo + b.lo
  IN [hi |-> (a.hi + b.hi + low \div Half) % Half, lo |-> low % Half]

\* this.offset + a + b, a sum of doubles: exact, no wrap at 2^32
ZipOffsetSum(off, a, b) ==
  LET low == off + a.lo + b.lo
  IN [hi |-> a.hi + b.hi + low \div Half, lo |-> low % Half]

\* the range check with > in place of >=
ExceedsLengthExclusive(zipOffset, buf) == zipOffset.hi > 0 \/ zipOffset.lo > Len(buf)

\* zipOffset >= this.buffer.length
ExceedsLength(zipOffset, buf) == zipOffset.hi > 0 \/ zipOffset.lo >= Len(buf)

HeaderFailure(detail, off) ==
  [result |-> "ValidationError", detail |-> detail, offset |-> off, header |-> NoHeader]

\* the range check that ends parseHeader
HeaderChecked(version, zipOffset, buf, off) ==
  IF ExceedsLength(zipOffset, buf) THEN HeaderFailure("offset", off)
  ELSE [result |-> "ok", detail |-> "none", offset |-> off,
        header |-> [version |-> version, zipOffset |-> zipOffset.lo]]

\* a comparison of the low 16 bits only
MagicMatchesLowHalf(magic) == magic.lo = U32(CRX_MAGIC).lo

\* the magic comparison of parseHeader
MagicMatches(magic) == magic = U32(CRX_MAGIC)

\* parseHeader reading on from wherever the cursor was left
ParseStartAtCursor(cursor) == cursor

\* the cursor at which parseHeader starts reading: this.offset = 0
ParseStart(cursor) == 0

\* parseHeader() with the cursor at start: readUInt32LE reads at the cursor
\* and advances it by 4 unless the read underruns
ParseHeaderFrom(buf, start) ==
  IF Underrun(buf, start) THEN HeaderFailure("underrun", start)
  ELSE IF ~MagicMatches(ReadUInt32LEAt(buf, start)) THEN HeaderFailure("magic", start + 4)
  ELSE IF Underrun(buf, start + 4) THEN HeaderFailure("underrun", start + 4)
  ELSE LET version == ReadUInt32LEAt(buf, start + 4) IN
    IF version = U32(CRX_VERSION_2) THEN
      IF Underrun(buf, start + 8) THEN HeaderFailure("underrun", start + 8)
      ELSE IF Underrun(buf, start + 12) THEN HeaderFailure("underrun", start + 12)
      ELSE HeaderChecked(CRX_VERSION_2,
                         ZipOffsetSum(start + 16, ReadUInt32LEAt(buf, start + 8),
                                      ReadUInt32LEAt(buf, start + 12)),
                         buf, start + 16)
    ELSE IF version = U32(CRX_VERSION_3) THEN
      IF Underrun(buf, start + 8) THEN HeaderFailure("underrun", start + 8)
      ELSE HeaderChecked(CRX_VERSION_3,
                         ZipOffsetSum(start + 12, ReadUInt32LEAt(buf, start + 8), U32(0)),
                         buf, start + 12)
    ELSE HeaderFailure("version", start + 8)

\* parseHeader(): result, cursor left behind and header
ParseHeaderOutcome(buf, cursor) ==
  IF buf = NoBuffer
  THEN [result |-> "Error", detail |-> "uninitialized", offset |-> cursor, header |-> NoHeader]
  ELSE ParseHeaderFrom(buf, ParseStart(cursor))

(***************************************************************************)
(* Container images.                                                       *)
(***************************************************************************)
MaxPayload == 3
MaxParseCalls == 2
MaxReadCalls == 5

\* 0x43 0x72 0x32 0x34, the little-endian bytes of CRX_MAGIC
MagicBytes == <<67, 114, 50, 52>>

Payload(n) == [i \in 1..n |-> 80]

Take(s, k) == SubSeq(s, 1, k)

\* first words: the magic, and two words differing from it in one byte
MagicWords == { MagicBytes, <<68, 114, 50, 52>>, <<67, 114, 50, 53>> }

\* version words: 2, 3, 1 and 2 + 2^24
VersionWords == { <<2, 0, 0, 0>>, <<3, 0, 0, 0>>, <<1, 0, 0, 0>>, <<2, 0, 0, 1>> }

\* length words: 0, 1, 2, 256, 2^31 and 2^32 - 1
FieldWords ==
  { <<0, 0, 0, 0>>, <<1, 0, 0, 0>>, <<2, 0, 0, 0>>, <<0, 1, 0, 0>>,
    <<0, 0, 0, 128>>, <<255, 255, 255, 255>> }

FullImages ==
  { m \o v \o f \o g \o Payload(n) :
      m \in MagicWords, v \in VersionWords, f \in FieldWords, g \in FieldWords,
      n \in 0..MaxPayload }

\* every image and every truncation of one, the empty buffer included
HeaderBuffers == UNION { { Take(b, k) : k \in 0..Len(b) } : b \in FullImages }

\* a version 3 container of 17 bytes: empty signed header, 5 archive bytes
ValidV3 == MagicBytes \o <<3, 0, 0, 0>> \o <<0, 0, 0, 0>> \o Payload(5)

\* a version 2 container of 18 bytes: 1 key byte, no signature, 1 archive byte
ValidV2 == MagicBytes \o <<2, 0, 0, 0>> \o <<1, 0, 0, 0>> \o <<0, 0, 0, 0>> \o Payload(2)

\* byte sequences a download or a local file can deliver
PipelineBuffers ==
  { ValidV3,
    ValidV2,
    <<67, 114>>,
    MagicBytes \o <<3, 0>>,
    <<60, 104, 116, 109>> \o Payload(8),
    MagicBytes \o <<4, 0, 0, 0>> \o Payload(4),
    MagicBytes \o <<3, 0, 0, 0>> \o <<255, 255, 255, 255>> \o Payload(1),
    MagicBytes \o <<3, 0, 0, 0>> \o <<0, 0, 0, 0>> }

(***************************************************************************)
(* PathValidator.sanitizeFilename.  A name is a sequence of characters;    *)
(* the control characters 0x00, 0x1F and 0x7F are written NUL, US and DEL. *)
(***************************************************************************)
MaxNameLength == 200

\* the character class [<>:"/\\|?*\x00-\x1f]
IllegalChars == {"<", ">", ":", "\"", "/", "\\", "|", "?", "*", "NUL", "US"}

\* the white space String.prototype.trim strips that the class above leaves
WhiteSpace == {" "}

\* replace(/[<>:"/\\|?*\x00-\x1f]/g, '_')
ReplaceIllegal(s) == [i \in 1..Len(s) |-> IF s[i] \in IllegalChars THEN "_" ELSE s[i]]

\* replace(/\.{2,}/g, '_'): every maximal run of two or more dots becomes
\* one underscore
CollapseDotRuns(s) ==
  LET inRun(i) == s[i] = DOT /\ ((i > 1 /\ s[i - 1] = DOT) \/ (i < Len(s) /\ s[i + 1] = DOT))
      marked == [i \in 1..Len(s) |->
                   IF ~inRun(i) THEN s[i]
                   ELSE IF i > 1 /\ s[i - 1] = DOT THEN "DROP"
                   ELSE "_"]
  IN SelectSeq(marked, LAMBDA c : c # "DROP")

RECURSIVE FirstNonSpace(_, _)
FirstNonSpace(s, i) ==
  IF i > Len(s) THEN i
  ELSE IF s[i] \in WhiteSpace THEN FirstNonSpace(s, i + 1) ELSE i

RECURSIVE LastNonSpace(_, _)
LastNonSpace(s, i) ==
  IF i < 1 THEN i
  ELSE IF s[i] \in WhiteSpace THEN LastNonSpace(s, i - 1) ELSE i

\* trim()
Trim(s) == SubSeq(s, FirstNonSpace(s, 1), LastNonSpace(s, Len(s)))

\* if (sanitized.length > 200) sanitized = sanitized.substring(0, 200)
Truncate(s) == IF Len(s) > MaxNameLength THEN SubSeq(s, 1, MaxNameLength) ELSE s

\* 'unnamed'
Unnamed == <<"u", "n", "n", "a", "m", "e", "d">>

SanitizeFilename(name) ==
  LET sanitized == Truncate(Trim(CollapseDotRuns(ReplaceIllegal(name))))
  IN IF sanitized = EmptyStr THEN Unnamed ELSE sanitized

\* names: a short head, a run of letters and a short tail
MaxHead == 1
MaxTail == 2

NameAlphabet == {"a", DOT, " ", SLASH, "\\", "NUL", "DEL"}

Strings(n) == UNION { [1..k -> NameAlphabet] : k \in 0..n }

Fill(n) == [i \in 1..n |-> "a"]

FillLengths == {0} \cup ((MaxNameLength - 3)..(MaxNameLength + 1))

Names ==
  { h \o Fill(n) \o t : h \in Strings(MaxHead), n \in FillLengths, t \in Strings(MaxTail) }

(***************************************************************************)
(* Input strings and findExtensionId.                                      *)
(***************************************************************************)
\* the repetition count of the pattern /([a-z]{32})/
ID_LENGTH == 32

\* letters of the class [a-z]
LowerCase == {"a", "z"}

\* findExtensionId returning null
NoId == << >>

Letters(c, n) == [i \in 1..n |-> c]

IsLowerRun(s, i) ==
  i + ID_LENGTH - 1 <= Len(s) /\ \A j \in i..(i + ID_LENGTH - 1) : s[j] \in LowerCase

\* the leftmost match of /([a-z]{32})/ at or after index i; 0 when none
RECURSIVE FirstIdMatch(_, _)
FirstIdMatch(s, i) ==
  IF i + ID_LENGTH - 1 > Len(s) THEN 0
  ELSE IF IsLowerRun(s, i) THEN i
  ELSE FirstIdMatch(s, i + 1)

\* a search that accepts the identifier only as the whole input
FindExtensionIdAnchored(s) ==
  IF Len(s) = ID_LENGTH /\ IsLowerRun(s, 1) THEN s ELSE NoId

\* findExtensionId(): this.input.match(/([a-z]{32})/)?.[0] ?? null
FindExtensionId(s) ==
  IF FirstIdMatch(s, 1) = 0 THEN NoId
  ELSE SubSeq(s, FirstIdMatch(s, 1), FirstIdMatch(s, 1) + ID_LENGTH - 1)

\* an extension id and the path of a local file
RemoteInput == Letters("a", ID_LENGTH)
LocalInput == <<"x", DOT, "c">>

\* inputs of the extraction pipeline
PipelineInputs == {RemoteInput, LocalInput}

\* inputs around the pattern: a head, a run of 'a', a separator, a run of
\* 'z' and a tail; the constructor rejects the empty string
InputHeads == { << >>, <<SLASH>>, <<"A">>, <<"z">> }
InputTails == { << >>, <<DOT>>, <<"1">> }
InputSeparators == { << >>, <<"_">> }
InputStrings ==
  { h \o Letters("a", n) \o m \o Letters("z", k) \o t :
      h \in InputHeads, n \in {0, 1, ID_LENGTH - 1, ID_LENGTH},
      m \in InputSeparators, k \in {0, 1, ID_LENGTH}, t \in InputTails } \ { << >> }

(***************************************************************************)
(* ManifestValidator.  A JSON value carries its type, its characters when  *)
(* it is a string and its items when it is an array; a property an object  *)
(* does not have is Undefined.                                             *)
(***************************************************************************)
Value(t, s, items) == [t |-> t, s |-> s, items |-> items]

Undefined == Value("undefined", << >>, << >>)
Null == Value("null", << >>, << >>)
Num == Value("number", << >>, << >>)
Str(s) == Value("string", s, << >>)
Arr(items) == Value("array", << >>, items)

\* white space String.prototype.trim strips
TrimWhiteSpace == {" ", "TAB"}

\* !s.trim()
BlankAfterTrim(s) == \A i \in 1..Len(s) : s[i] \in TrimWhiteSpace

NoFields ==
  [ name |-> Undefined, version |-> Undefined, manifest_version |-> Undefined,
    description |-> Undefined, permissions |-> Undefined, custom_field |-> Undefined ]

\* a parsed JSON document: an object with its properties, or another value
Object(fields) == [t |-> "object", fields |-> fields]
NonObject(t) == [t |-> t, fields |-> NoFields]

NoManifest == NonObject("undefined")

\* typeof data !== 'object' || data === null; typeof [] is 'object'
IsObject(data) == data.t \in {"object", "array"}

\* a permissions check that looks at the container only
PermissionsOkShallow(p) == p.t = "array"

\* Array.isArray(p) && p.every(x => typeof x === 'string')
PermissionsOk(p) ==
  p.t = "array" /\ \A i \in 1..Len(p.items) : p.items[i].t = "string"

\* the field the thrown ValidationError names, "none" when data is accepted
ManifestVerdict(data) ==
  IF ~IsObject(data) THEN "object"
  ELSE LET manifest == data.fields IN
    IF manifest.name.t # "string" \/ BlankAfterTrim(manifest.name.s) THEN "name"
    ELSE IF manifest.version.t # "string" \/ manifest.version.s = << >> THEN "version"
    ELSE IF manifest.manifest_version.t # "number" THEN "manifest_version"
    ELSE IF manifest.description # Undefined /\ manifest.description.t # "string"
      THEN "description"
    ELSE IF manifest.permissions # Undefined /\ ~PermissionsOk(manifest.permissions)
      THEN "permissions"
    ELSE "none"

\* a validator that rebuilds the manifest from the fields it knows
ManifestReturnedKnownFields(data) ==
  Object([data.fields EXCEPT !.custom_field = Undefined])

\* return manifest as ExtensionManifest
ManifestReturned(data) == data

\* validateManifest(data)
ValidateManifest(data) ==
  IF ManifestVerdict(data) = "none"
  THEN [result |-> "ok", field |-> "none", manifest |-> ManifestReturned(data)]
  ELSE [result |-> "ValidationError", field |-> ManifestVerdict(data), manifest |-> NoManifest]

NameValues == {Undefined, Num, Str(<<"n">>), Str(<< >>), Str(<<" ", "TAB">>), Str(<<" ", "n">>)}
VersionValues == {Undefined, Num, Str(<<"1">>), Str(<< >>), Str(<<" ">>)}
ManifestVersionValues == {Undefined, Num, Str(<<"3">>)}
DescriptionValues == {Undefined, Null, Num, Str(<<"d">>), Str(<< >>)}
PermissionsValues ==
  {Undefined, Null, Str(<<"p">>), Arr(<< >>), Arr(<<Str(<<"p">>)>>),
   Arr(<<Str(<<"p">>), Num, Str(<<"q">>)>>)}
CustomValues == {Undefined, Str(<<"c">>)}

ManifestObjects ==
  { Object(f) : f \in [ name : NameValues, version : VersionValues,
                        manifest_version : ManifestVersionValues,
                        description : DescriptionValues,
                        permissions : PermissionsValues,
                        custom_field : CustomValues ] }

\* every document JSON.parse can return
ManifestInputs ==
  ManifestObjects \cup {NonObject("null"), NonObject("string"), NonObject("number"),
                        NonObject("boolean"), NonObject("array")}

ValidManifest ==
  Object([NoFields EXCEPT !.name = Str(<<"n">>), !.version = Str(<<"1">>),
                          !.manifest_version = Num, !.custom_field = Str(<<"c">>)])

\* documents an extracted manifest.json can hold
PipelineManifests == {ValidManifest, Object(NoFields), NonObject("array")}

(***************************************************************************)
(* PathValidator as an object: the fields its constructor stores and       *)
(* validatePath with its optional base directory.                          *)
(***************************************************************************)
MaxValidateSegs == 2

\* import.meta.dir of the module that holds PathUtils
ModuleDir == <<"/", "m">>

\* PathUtils.resolve(...segments)
Resolve(segments) ==
  LET joined == Join(segments) IN
  IF StartsWith(joined, <<SLASH>>) THEN joined
  ELSE Join(<<ModuleDir, joined>>)

\* new PathValidator(allowedPaths) in a process whose working directory is cwd
NewPathValidator(allowedPaths, cwd) ==
  [ workingDirectory |-> cwd,
    resolvedAllowedPaths |->
      [i \in 1..Len(allowedPaths) |->
         IF allowedPaths[i] = <<DOT>> THEN cwd
         ELSE IF ~StartsWith(allowedPaths[i], <<SLASH>>) THEN Join(<<cwd, allowedPaths[i]>>)
         ELSE allowedPaths[i]] ]

\* a validator resolving relative paths from process.cwd() at the call
RelativeBaseAtCall(validator, cwd) == cwd

\* the directory validatePath resolves a relative path from when it is
\* given no baseDir
RelativeBase(validator, cwd) == validator.workingDirectory

\* a resolution that joins every path to the working directory, absolute
\* ones included
ValidatePathResolvedJoiningAll(validator, cwd, path, baseDir) ==
  IF baseDir # EmptyStr THEN Resolve(<<baseDir, path>>)
  ELSE Join(<<RelativeBase(validator, cwd), path>>)

\* validatePath's resolved; an empty baseDir counts as none
ValidatePathResolved(validator, cwd, path, baseDir) ==
  IF baseDir # EmptyStr THEN Resolve(<<baseDir, path>>)
  ELSE IF ~StartsWith(path, <<SLASH>>) THEN Join(<<RelativeBase(validator, cwd), path>>)
  ELSE path

NoValidation == [result |-> "none", path |-> EmptyStr]

\* validatePath(path, baseDir) of a validator in a process whose working
\* directory is cwd at the time of the call
ValidatePath(validator, cwd, path, baseDir) ==
  LET normalized == Normalize(ValidatePathResolved(validator, cwd, path, baseDir))
      isAllowed ==
        \E i \in 1..Len(validator.resolvedAllowedPaths) :
          LET allowedNormalized == Normalize(validator.resolvedAllowedPaths[i]) IN
          \/ StartsWith(normalized, allowedNormalized \o <<SLASH>>)
          \/ normalized = allowedNormalized
  IN IF isAllowed THEN [result |-> "ok", path |-> normalized]
     ELSE [result |-> "SecurityError", path |-> EmptyStr]

\* two executions of the program
Executions == {1, 2}

\* directories a process can stand in
WorkingDirectories == { workingDirectory, <<"/", "t">> }

\* allowedPaths handed to the constructor
AllowedRootLists ==
  { << <<DOT>> >>, << <<"a">> >>, << <<DOT>>, <<"/", "t">> >>, << <<SLASH>> >> }

ValidateSegLists == UNION { [1..n -> { <<"a">>, <<DOT, DOT>> }] : n \in 1..MaxValidateSegs }

ValidateCandidates ==
  { JoinWithSlash(l) : l \in ValidateSegLists }
    \cup { <<SLASH>> \o JoinWithSlash(l) : l \in ValidateSegLists }

\* base directories handed to validatePath, the empty one standing for none
BaseDirs == { EmptyStr, <<"a">>, <<"/", "w">>, <<DOT, DOT>> }

NoArgs == [path |-> EmptyStr, baseDir |-> EmptyStr]

(***************************************************************************)
(* Arguments of PathUtils.normalize: the candidate paths, and paths with   *)
(* empty segments.                                                         *)
(***************************************************************************)
NormalizeArgs ==
  CandidatePaths
    \cup { EmptyStr, <<SLASH>>, <<SLASH, SLASH>>, <<"a", SLASH, SLASH, "a">>,
           <<"a", SLASH, SLASH, SLASH, "a">>, <<"a", SLASH>>,
           <<SLASH, "a", SLASH, SLASH, DOT, DOT, SLASH>> }

(***************************************************************************)
(* Arguments of PathUtils.join.                                            *)
(***************************************************************************)
MaxJoinParts == 3

JoinPartLists == UNION { [1..n -> SegAlphabet] : n \in 1..MaxJoinParts }

\* the segments: relative paths of at most MaxJoinParts parts
JoinSegments == { JoinWithSlash(l) : l \in JoinPartLists }

\* pairs of segments
JoinArgs == { <<first, second>> : first \in JoinSegments, second \in JoinSegments }

(***************************************************************************)
(* Logger and the command line.  The error stream is the sequence of lines *)
(* written by console.error and console.warn.                              *)
(***************************************************************************)
LogLevel == [DEBUG |-> 0, INFO |-> 1, WARN |-> 2, ERROR |-> 3]

\* Logger.shouldLog(level) of a logger constructed with threshold
ShouldLog(level, threshold) == level >= threshold

Line(by, text) == [by |-> by, text |-> text]

\* Logger.error(message, error): the lines it writes; isError tells
\* whether error is an instance of Error
LoggerError(threshold, message, isError) ==
  IF ShouldLog(LogLevel.ERROR, threshold)
  THEN <<Line("logger", message)>>
       \o (IF isError /\ threshold = LogLevel.DEBUG THEN <<Line("logger", "Stack")>> ELSE << >>)
  ELSE << >>

\* Logger.warn(message)
LoggerWarn(threshold, message) ==
  IF ShouldLog(LogLevel.WARN, threshold) THEN <<Line("logger", message)>> ELSE << >>

\* the classes derived from CRXError
CRXErrors == {"ValidationError", "DownloadError", "ExtractionError", "SecurityError"}

\* the code a CRXError carries
ErrorCode(kind) ==
  CASE kind = "ValidationError" -> "VALIDATION_ERROR"
    [] kind = "DownloadError" -> "DOWNLOAD_ERROR"
    [] kind = "ExtractionError" -> "EXTRACTION_ERROR"
    [] kind = "SecurityError" -> "SECURITY_ERROR"
    [] OTHER -> "none"

\* a catch block printing the same line for every Error
RunCLICatchLinesWithoutCode(kind, level) ==
  IF kind = "nonError" THEN <<Line("runCLI", "Unknown error occurred")>>
  ELSE <<Line("runCLI", "Unexpected error")>>
       \o (IF level = LogLevel.DEBUG /\ kind \notin CRXErrors
           THEN <<Line("runCLI", "stack")>> ELSE << >>)

\* the catch block of runCLI: the lines it hands to console.error for a
\* CRXError, another Error ("Error") and a value that is no Error
RunCLICatchLines(kind, level) ==
  IF kind \in CRXErrors THEN <<Line("runCLI", ErrorCode(kind))>>
  ELSE IF kind # "nonError"
    THEN <<Line("runCLI", "Unexpected error")>>
         \o (IF level = LogLevel.DEBUG THEN <<Line("runCLI", "stack")>> ELSE << >>)
  ELSE <<Line("runCLI", "Unknown error occurred")>>

HELP_FLAG == <<"-", "-", "h", "e", "l", "p">>
DEBUG_FLAG == <<"-", "-", "d", "e", "b", "u", "g">>
QUIET_FLAG == <<"-", "-", "q", "u", "i", "e", "t">>

\* the loop of runCLI over args[1..]: the first argument that is no option
\* becomes the output directory, the last of --debug and --quiet decides
\* the level; an output directory of EmptyStr stands for undefined
RECURSIVE ParseArgs(_, _, _)
ParseArgs(args, i, parsed) ==
  IF i > Len(args) THEN parsed
  ELSE LET arg == args[i] IN
       ParseArgs(args, i + 1,
         IF arg = EmptyStr THEN parsed
         ELSE IF arg = DEBUG_FLAG THEN [parsed EXCEPT !.logLevel = LogLevel.DEBUG]
         ELSE IF arg = QUIET_FLAG THEN [parsed EXCEPT !.logLevel = LogLevel.ERROR]
         ELSE IF parsed.outputDir = EmptyStr /\ ~StartsWith(arg, <<"-", "-">>)
           THEN [parsed EXCEPT !.outputDir = arg]
         ELSE parsed)

\* args.length === 0 || args.includes('--help')
WantsUsage(args) == args = << >> \/ \E i \in 1..Len(args) : args[i] = HELP_FLAG

\* process.exit has not been called
NoExit == -1

\* argument vectors of runCLI
ArgVectors ==
  { << >>,
    <<HELP_FLAG>>,
    <<LocalInput, HELP_FLAG>>,
    <<EmptyStr>>,
    <<LocalInput>>,
    <<LocalInput, <<"o">> >>,
    <<LocalInput, DEBUG_FLAG>>,
    <<LocalInput, QUIET_FLAG>>,
    <<LocalInput, <<"o">>, DEBUG_FLAG>>,
    <<LocalInput, <<DOT, DOT>> >>,
    <<RemoteInput>>,
    <<RemoteInput, DEBUG_FLAG>> }

(***************************************************************************)
(* getZipInfo: the listing of unzip -l, cut into lines, its summary line   *)
(* and the size of the staged file.                                        *)
(***************************************************************************)
MaxDigits == 2

Digits == <<"0", "1", "2", "3", "4", "5", "6", "7", "8", "9">>

IsDigit(c) == \E d \in 1..Len(Digits) : Digits[d] = c

\* the value of a decimal digit
DigitValue(c) == (CHOOSE d \in 1..Len(Digits) : Digits[d] = c) - 1

\* parseInt(s, 10) of a run of digits
RECURSIVE ParseInt(_)
ParseInt(s) ==
  IF s = EmptyStr THEN 0
  ELSE 10 * ParseInt(SubSeq(s, 1, Len(s) - 1)) + DigitValue(s[Len(s)])

\* length of the run of white space at the head of s
RECURSIVE SpaceRun(_)
SpaceRun(s) ==
  IF s = EmptyStr \/ Head(s) # " " THEN 0 ELSE 1 + SpaceRun(Tail(s))

\* length of the run of digits at the head of s
RECURSIVE DigitRun(_)
DigitRun(s) ==
  IF s = EmptyStr \/ ~IsDigit(Head(s)) THEN 0 ELSE 1 + DigitRun(Tail(s))

NoMatch == [matched |-> FALSE, size |-> EmptyStr, count |-> EmptyStr]

\* a match that stands in '0' for the groups of a line it cannot read
MatchSummaryDefaulting(line) == [matched |-> TRUE, size |-> <<"0">>, count |-> <<"0">>]

\* summaryLine.match(/^\s*(\d+)\s+(\d+)\s+files?/): the two groups
MatchSummary(line) ==
  LET a == From(line, SpaceRun(line) + 1)
      n1 == DigitRun(a)
      b == From(a, n1 + 1)
      s1 == SpaceRun(b)
      c == From(b, s1 + 1)
      n2 == DigitRun(c)
      d == From(c, n2 + 1)
      s2 == SpaceRun(d)
      e == From(d, s2 + 1)
  IN IF n1 >= 1 /\ s1 >= 1 /\ n2 >= 1 /\ s2 >= 1 /\ StartsWith(e, <<"f", "i", "l", "e">>)
     THEN [matched |-> TRUE, size |-> SubSeq(a, 1, n1), count |-> SubSeq(c, 1, n2)]
     ELSE NoMatch

\* lines[lines.length - 2] || ''
SummaryLine(lines) ==
  IF Len(lines) >= 2 THEN lines[Len(lines) - 1] ELSE EmptyStr

\* the command failed, or its output cut at the line ends
CommandFailed == [ok |-> FALSE, lines |-> << >>]
Output(lines) == [ok |-> TRUE, lines |-> lines]

\* stat() rejected
StatFailed == -1

\* getZipInfo(zipPath): every failure inside the try block is answered
\* with ExtractionError
GetZipInfo(out, size) ==
  LET m == MatchSummary(SummaryLine(out.lines)) IN
  IF ~out.ok \/ ~m.matched \/ size = StatFailed
  THEN [result |-> "ExtractionError", info |-> NoZipInfo]
  ELSE [result |-> "ok",
        info |-> [fileCount |-> ParseInt(m.count),
                  uncompressedSize |-> ParseInt(m.size),
                  compressedSize |-> size]]

\* runs of at most MaxDigits digits, the empty run included
DigitStrings ==
  UNION { [1..n -> {"0", "1", "7"}] : n \in 0..MaxDigits }

\* texts that can stand where the summary line is expected
SummaryLines ==
  { pad \o size \o <<" ">> \o gap \o count \o <<" ">> \o word :
      pad \in {EmptyStr, <<" ", " ">>}, gap \in {EmptyStr, <<" ">>},
      size \in DigitStrings, count \in DigitStrings,
      word \in { <<"f", "i", "l", "e", "s">>, <<"f", "i", "l", "e">>, <<"-", "-">> } }

\* outputs of unzip -l: a listing that ends with a line end, one that does
\* not, and an empty output
Listings ==
  { Output(<<<<"A">>, <<"-", "-">>, line, EmptyStr>>) : line \in SummaryLines }
    \cup { Output(<<<<"A">>, line>>) : line \in SummaryLines }
    \cup { Output(<<EmptyStr>>), CommandFailed }

\* sizes stat() reports for the staged file
StagedSizes == {StatFailed, 1, 5}

(***************************************************************************)
(* State.                                                                  *)
(***************************************************************************)
VARIABLES
  pc,               \* position of the extract() call
  config,           \* the ExtractorConfig given to the constructor
  outputDir,        \* argument of extract()
  outDir,           \* validated output directory
  validCrxPath,     \* validated path of the container copy
  tempDir,          \* staging directory named by extractZip
  validated,        \* paths returned by validatePath during this run
  mutations,        \* filesystem mutations performed so far
  priorContents,    \* files present in the output directory before the run
  crxSaved,         \* the container copy is on disk
  tempExists,       \* the staging directory is on disk
  stagedZip,        \* archive.zip is on disk in the staging directory
  entriesWritten,   \* the decompression utility has written archive entries
  published,        \* extracted files are in the output directory
  archivePublished, \* archive.zip is in the output directory
  fallbackZip,      \* failed_extraction.zip is on disk
  zipInfo,          \* summary returned by getZipInfo
  secResult,        \* verdict of validateZipSecurity
  unzipCalls,       \* invocations of the decompression utility
  unzipExit,        \* its exit code, -1 before it has run
  thrown,           \* error caught by extractZip's catch block
  pending,          \* error extractZip is propagating through finally
  error,            \* error extract() rejected with
  errNamesFallback, \* the error message names the fallback path
  failedAt,         \* step at which the first error was thrown
  stages,           \* the stages begun so far, in order
  cleanupAttempted, \* rm -rf of the staging directory was run
  acqResult,        \* outcome of loadInput
  hdrResult,        \* outcome of parseHeader
  manifestResult,   \* outcome of readManifest
  rawManifest,      \* the document handed to validateManifest
  manifest,         \* the manifest validateManifest returned
  manifestField,    \* the field its ValidationError names
  input,            \* the input string given to the constructor
  extensionId,      \* the identifier findExtensionId found in the input
  mode,             \* "remote" when the input holds an extension id, else "local"
  timer,            \* the download timeout timer
  timeoutElapsed,   \* downloadTimeout ms have passed since the timer was set
  response,         \* status, content type and body of the HTTP response
  existsRes,        \* settlement of file.exists()
  statRes,          \* settlement of file.stat().catch(() => null)
  readRes,          \* settlement of file.arrayBuffer().catch(() => null)
  fileBytes,        \* content of the local file
  acqDetail,        \* which message the acquisition error carries
  buffer,           \* this.buffer
  offset,           \* this.offset, the read cursor
  header,           \* header returned by the latest parseHeader call
  hdrDetail,        \* which message the parseHeader error carries
  parseCalls,       \* calls of parseHeader so far
  readValue,        \* value returned by the latest direct call of readUInt32LE
  readResult,       \* outcome of that call
  readCalls,        \* direct calls of readUInt32LE so far
  rawName,          \* argument of sanitizeFilename
  sanitizedName,    \* sanitizeFilename(rawName)
  resanitizedName,  \* sanitizeFilename(sanitizedName)
  cwd,              \* process.cwd() of each execution
  pathValidator,    \* the PathValidator each execution constructed
  validateArgs,     \* arguments of the latest direct call of validatePath
  validation,       \* what that call gave in each execution
  revalidation,     \* validatePath of the path that call returned
  args,             \* argument vector of runCLI
  logLevel,         \* threshold of the extractor's logger
  exitCode,         \* argument of process.exit, -1 while it has not been called
  usagePrinted,     \* the usage text is on the output stream
  errorStream,      \* lines written to the error stream so far
  joinArgs,         \* segments handed to PathUtils.join
  joinResult,       \* what it returned
  normalizeArg,     \* argument of PathUtils.normalize
  normalized,       \* normalize(normalizeArg)
  renormalized,     \* normalize(normalized)
  listing,          \* outcome of unzip -l handed to getZipInfo
  stagedSize,       \* outcome of the stat of the staged file
  infoResult,       \* outcome of getZipInfo called on its own
  infoSummary       \* the summary it returned

pathVars == <<outDir, validCrxPath, tempDir, validated>>
fsVars == <<priorContents, crxSaved, tempExists, stagedZip, entriesWritten, published,
           archivePublished, fallbackZip>>
zipVars == <<zipInfo, secResult, unzipCalls, unzipExit>>
errVars == <<thrown, pending, error, errNamesFallback, failedAt, stages, errorStream>>
acqVars == <<input, extensionId, mode, timer, timeoutElapsed, response, existsRes, statRes, readRes,
             fileBytes, acqDetail>>
readVars == <<readValue, readResult, readCalls>>
hdrVars == <<buffer, offset, header, hdrDetail, parseCalls, readVars>>
nameVars == <<rawName, sanitizedName, resanitizedName>>
manifestVars == <<rawManifest, manifest, manifestField>>
validatorVars == <<cwd, pathValidator, validateArgs, validation, revalidation>>
cliVars == <<args, logLevel, exitCode, usagePrinted>>
joinVars == <<joinArgs, joinResult>>
normVars == <<normalizeArg, normalized, renormalized>>
infoVars == <<listing, stagedSize, infoResult, infoSummary>>
stageVars == <<cleanupAttempted, acqResult, hdrResult, manifestResult, manifestVars, acqVars,
               hdrVars, nameVars, validatorVars, cliVars, joinVars, normVars, infoVars>>

vars == <<pc, config, outputDir, pathVars, mutations, fsVars, zipVars, errVars, stageVars>>

NoResponse == [arrived |-> FALSE, ok |-> FALSE, html |-> FALSE, body |-> NoBuffer]

\* no acquisition has started
AcquisitionIdle ==
  /\ timer = "unset"
  /\ timeoutElapsed = FALSE
  /\ response = NoResponse
  /\ existsRes = "idle"
  /\ statRes = "idle"
  /\ readRes = "idle"
  /\ fileBytes = NoBuffer
  /\ acqDetail = "none"

\* readUInt32LE has not been called on its own
ReaderIdle ==
  /\ readValue = U32(0)
  /\ readResult = "none"
  /\ readCalls = 0

\* parseHeader has not been called
HeaderIdle ==
  /\ offset = 0
  /\ header = NoHeader
  /\ hdrDetail = "none"
  /\ parseCalls = 0
  /\ ReaderIdle

\* sanitizeFilename has not been called
NamesIdle ==
  /\ rawName = EmptyStr
  /\ sanitizedName = EmptyStr
  /\ resanitizedName = EmptyStr

\* validateManifest has not been called
ManifestIdle ==
  /\ rawManifest = NoManifest
  /\ manifest = NoManifest
  /\ manifestField = "none"

\* getZipInfo has not been called on its own
ZipInfoIdle ==
  /\ listing = CommandFailed
  /\ stagedSize = StatFailed
  /\ infoResult = "none"
  /\ infoSummary = NoZipInfo

\* PathUtils.normalize has not been called on its own
NormalizeIdle ==
  /\ normalizeArg = EmptyStr
  /\ normalized = EmptyStr
  /\ renormalized = EmptyStr

\* PathUtils.join has not been called on its own
JoinIdle ==
  /\ joinArgs = << >>
  /\ joinResult = EmptyStr

\* runCLI is not involved: the logger has the level of DEFAULT_CONFIG
CliIdle ==
  /\ args = << >>
  /\ logLevel = LogLevel.INFO
  /\ exitCode = NoExit
  /\ usagePrinted = FALSE

\* validatePath has not been called on its own; the validator is the one
\* the CRXExtractor constructor built
ValidatorIdle ==
  /\ cwd = [e \in Executions |-> workingDirectory]
  /\ pathValidator =
       [e \in Executions |-> NewPathValidator(config.allowedOutputPaths, workingDirectory)]
  /\ validateArgs = NoArgs
  /\ validation = [e \in Executions |-> NoValidation]
  /\ revalidation = [e \in Executions |-> NoValidation]

\* the stages that lie behind a run standing at a step
StagesBefore(step) ==
  CASE step = "parseHeader" -> <<"acquisition">>
    [] step = "validateOut" -> <<"acquisition", "header">>
    [] OTHER -> << >>

BeforeExtract ==
  /\ outDir = EmptyStr
  /\ validCrxPath = EmptyStr
  /\ tempDir = EmptyStr
  /\ validated = {}
  /\ mutations = {}
  /\ priorContents = TRUE
  /\ crxSaved = FALSE
  /\ tempExists = FALSE
  /\ stagedZip = FALSE
  /\ entriesWritten = FALSE
  /\ published = FALSE
  /\ archivePublished = FALSE
  /\ fallbackZip = FALSE
  /\ zipInfo = NoZipInfo
  /\ secResult = "none"
  /\ unzipCalls = 0
  /\ unzipExit = -1
  /\ thrown = "none"
  /\ pending = "none"
  /\ error = "none"
  /\ errNamesFallback = FALSE
  /\ failedAt = "none"
  /\ stages = StagesBefore(pc)
  /\ errorStream = << >>
  /\ cleanupAttempted = FALSE
  /\ manifestResult = "none"

\* the state after new CRXExtractor(input, config)
Init ==
  /\ pc = "idle"
  /\ config \in Configs
  /\ outputDir = EmptyStr
  /\ acqResult = "none"
  /\ hdrResult = "none"
  /\ input \in PipelineInputs
  /\ extensionId = NoId
  /\ mode = "none"
  /\ buffer = NoBuffer
  /\ AcquisitionIdle
  /\ HeaderIdle
  /\ NamesIdle
  /\ ManifestIdle
  /\ ZipInfoIdle
  /\ NormalizeIdle
  /\ JoinIdle
  /\ CliIdle
  /\ ValidatorIdle
  /\ BeforeExtract


(***************************************************************************)
(* Control flow of extract() and extractZip().                             *)
(***************************************************************************)
\* the statement that follows a step which completed without throwing
Successor(step) ==
  CASE step = "loadInput" -> "parseHeader"
    [] step = "parseHeader" -> "validateOut"
    [] step = "validateOut" -> "ensureParent"
    [] step = "ensureParent" -> "clearOut"
    [] step = "clearOut" -> "validateCrx"
    [] step = "validateCrx" -> "ensureCrxDir"
    [] step = "ensureCrxDir" -> "writeCrx"
    [] step = "writeCrx" -> "ensureTemp"
    [] step = "ensureTemp" -> "writeZip"
    [] step = "writeZip" -> "validateZip"
    [] step = "validateZip" -> "unzip"
    [] step = "unzip" -> "mv"
    [] step = "mv" -> "finally"

\* extract() swallowing the error of parseHeader
ExtractNextIgnoringHeaderFailure(step, err) ==
  IF err # "none" /\ step # "parseHeader" THEN "rejected" ELSE Successor(step)

\* extract() swallowing the error of the parent-directory creation
ExtractNextIgnoringParentFailure(step, err) ==
  IF err # "none" /\ step # "ensureParent" THEN "rejected" ELSE Successor(step)

\* try/catch of extract(): an error thrown by a step is logged and rethrown
ExtractNext(step, err) ==
  IF err # "none" THEN "rejected" ELSE Successor(step)

\* extractZip() running the decompression again after it failed
ExtractZipNextRetryingUnzip(step, err) ==
  IF err = "none" THEN Successor(step)
  ELSE IF step = "unzip" THEN "unzip"
  ELSE "catch"

\* extractZip() going on to publish after the decompression failed
ExtractZipNextIgnoringUnzipFailure(step, err) ==
  IF err # "none" /\ step # "unzip" THEN "catch" ELSE Successor(step)

\* extractZip() not awaiting the outcome of validateZipSecurity
ExtractZipNextUngated(step, err) ==
  IF err # "none" /\ step # "validateZip" THEN "catch" ELSE Successor(step)

\* try/catch of extractZip(): an error thrown by a step enters the catch block
ExtractZipNext(step, err) ==
  IF err # "none" THEN "catch" ELSE Successor(step)

\* the stage a step begins, "none" for a step inside or between stages
StageOf(step) ==
  CASE step = "parseHeader" -> "header"
    [] step = "ensureTemp" -> "staging"
    [] step = "validateZip" -> "security"
    [] step = "unzip" -> "decompression"
    [] step = "mv" -> "publishing"
    [] OTHER -> "none"

BeginStage(step) ==
  stages' = IF StageOf(step) = "none" THEN stages ELSE Append(stages, StageOf(step))

\* the catch block of extract(): logger.error('Extraction failed', error)
ExtractCatchLog == LoggerError(logLevel, "Extraction failed", TRUE)

\* the catch block of getZipInfo: logger.error('Failed to get ZIP info', error)
GetZipInfoLog(step, err) ==
  IF step = "validateZip" /\ err = "ExtractionError"
  THEN LoggerError(logLevel, "Failed to get ZIP info", TRUE)
  ELSE << >>

\* a step of extract() outside extractZip
ExtractStep(step, err) ==
  /\ pc' = ExtractNext(step, err)
  /\ BeginStage(step)
  /\ error' = IF ExtractNext(step, err) = "rejected" THEN err ELSE error
  /\ failedAt' = IF err # "none" /\ failedAt = "none" THEN step ELSE failedAt
  /\ errorStream' = IF ExtractNext(step, err) = "rejected"
                    THEN errorStream \o ExtractCatchLog ELSE errorStream
  /\ UNCHANGED <<thrown, pending, errNamesFallback>>

\* a step inside the try block of extractZip
ExtractZipStep(step, err) ==
  /\ pc' = ExtractZipNext(step, err)
  /\ BeginStage(step)
  /\ thrown' = IF ExtractZipNext(step, err) = "catch" THEN err ELSE thrown
  /\ failedAt' = IF err # "none" /\ failedAt = "none" THEN step ELSE failedAt
  /\ errorStream' = errorStream \o GetZipInfoLog(step, err)
  /\ UNCHANGED <<pending, error, errNamesFallback>>

\* a filesystem mutation: the operation, its target and the directory that
\* is created or written into
Mutation(op, path, dir) == [op |-> op, path |-> path, dir |-> dir]

\* ensureDirectory(path) running mkdir -p without validatePath
EnsureDirectoryErrorUnvalidated(path, allowedPaths, mkdirOk) ==
  IF ~mkdirOk THEN "ExtractionError" ELSE "none"

\* ensureDirectory(path): the error it throws, "none" when it returns
EnsureDirectoryError(path, allowedPaths, mkdirOk) ==
  IF ~ValidatePathOk(path, allowedPaths) THEN "SecurityError"
  ELSE IF ~mkdirOk THEN "ExtractionError"
  ELSE "none"

\* ensureDirectory(path): mkdir -p runs on the path validatePath returned
EnsureDirectory(path, mkdirOk) ==
  LET validPath == ValidatePathNormalized(path)
      err == EnsureDirectoryError(path, config.allowedOutputPaths, mkdirOk)
  IN /\ validated' = IF ValidatePathOk(path, config.allowedOutputPaths)
                     THEN validated \cup {validPath} ELSE validated
     /\ mutations' = IF err # "SecurityError"
                     THEN mutations \cup {Mutation("mkdir", validPath, validPath)}
                     ELSE mutations

(***************************************************************************)
(* extract(outputDir)                                                      *)
(***************************************************************************)
Extract ==
  /\ pc = "idle"
  /\ \E arg \in OutputDirArgs : outputDir' = arg
  /\ pc' = "loadInput"
  /\ UNCHANGED <<config, pathVars, mutations, fsVars, zipVars, errVars, stageVars>>

\* errors loadInput can reject with
LoadInputOutcomes == {"ok", "ValidationError", "DownloadError", "Error"}

\* what no acquisition step touches
loadFrame == <<config, outputDir, pathVars, mutations, fsVars, zipVars, cleanupAttempted,
               hdrResult, manifestResult, manifestVars, input, offset, header, hdrDetail, parseCalls,
               readVars, nameVars, validatorVars, cliVars, joinVars, normVars, infoVars>>

acqFrame == <<config, outputDir, pathVars, mutations, fsVars, zipVars, cleanupAttempted,
              hdrResult, manifestResult, manifestVars, input, extensionId, mode, offset, header,
              hdrDetail, parseCalls, readVars,
              nameVars, validatorVars, cliVars, joinVars, normVars, infoVars>>

\* loadInput rejects: the error reaches the catch block of extract()
AcquisitionFails(kind, detail) ==
  /\ acqResult' = kind
  /\ acqDetail' = detail
  /\ buffer' = buffer
  /\ ExtractStep("loadInput", kind)

\* loadInput returns: this.buffer holds the accepted bytes
AcquisitionSucceeds(bytes) ==
  /\ acqResult' = "ok"
  /\ acqDetail' = acqDetail
  /\ buffer' = bytes
  /\ ExtractStep("loadInput", "none")

\* loadInput(): downloadFromWebStore arms the timeout and starts the fetch;
\* loadLocalFile starts exists(), stat() and arrayBuffer() on the file
LoadInput ==
  /\ pc = "loadInput"
  /\ extensionId' = FindExtensionId(input)
  /\ mode' = IF FindExtensionId(input) # NoId THEN "remote" ELSE "local"
  /\ IF FindExtensionId(input) # NoId
     THEN /\ timer' = "armed"
          /\ pc' = "fetch"
          /\ UNCHANGED <<existsRes, statRes, readRes, fileBytes>>
     ELSE /\ \E bytes \in PipelineBuffers : fileBytes' = bytes
          /\ existsRes' = "pending"
          /\ statRes' = "pending"
          /\ readRes' = "pending"
          /\ pc' = "localIO"
          /\ timer' = timer
  /\ stages' = Append(stages, "acquisition")
  /\ UNCHANGED <<timeoutElapsed, response, acqResult, acqDetail, buffer, thrown, pending,
                 error, errNamesFallback, failedAt, errorStream, loadFrame>>

(***************************************************************************)
(* downloadFromWebStore(extensionId)                                       *)
(***************************************************************************)
\* downloadTimeout ms pass; an armed timer runs controller.abort()
TimeoutElapses ==
  /\ pc \in {"fetch", "body"}
  /\ ~timeoutElapsed
  /\ timeoutElapsed' = TRUE
  /\ timer' = IF timer = "armed" THEN "fired" ELSE timer
  /\ UNCHANGED <<pc, response, existsRes, statRes, readRes, fileBytes, acqResult,
                 acqDetail, buffer, errVars, acqFrame>>

\* the aborted fetch rejects with AbortError, which the catch block turns
\* into the timeout DownloadError
FetchAborted ==
  /\ pc = "fetch"
  /\ timer = "fired"
  /\ AcquisitionFails("DownloadError", "timeout")
  /\ UNCHANGED <<timer, timeoutElapsed, response, existsRes, statRes, readRes,
                 fileBytes, acqFrame>>

\* the checks on the response: status first, then content type
ResponseVerdict(ok, html) ==
  IF ~ok THEN "status" ELSE IF html THEN "html" ELSE "none"

\* fetch resolves with the response headers; clearTimeout runs at once
HeadersArrive ==
  /\ pc = "fetch"
  /\ timer = "armed"
  /\ timer' = "cleared"
  /\ \E ok \in BOOLEAN, html \in BOOLEAN :
       /\ response' = [arrived |-> TRUE, ok |-> ok, html |-> html, body |-> NoBuffer]
       /\ IF ResponseVerdict(ok, html) = "none"
          THEN /\ pc' = "body"
               /\ UNCHANGED <<acqResult, acqDetail, buffer, errVars>>
          ELSE AcquisitionFails("DownloadError", ResponseVerdict(ok, html))
  /\ UNCHANGED <<timeoutElapsed, existsRes, statRes, readRes, fileBytes, acqFrame>>

\* fetch rejects for a reason other than the abort: rethrown as it is
FetchFails ==
  /\ pc = "fetch"
  /\ timer = "armed"
  /\ timer' = "cleared"
  /\ AcquisitionFails("Error", "network")
  /\ UNCHANGED <<timeoutElapsed, response, existsRes, statRes, readRes, fileBytes,
                 acqFrame>>

\* a body check that measures the body but never looks at its first word
RemoteBodyAcceptedAnyMagic(bytes) == Len(bytes) >= 8

\* buffer.length < 8 || readUInt32LEAt(buffer, 0) !== CRX_MAGIC rejects
RemoteBodyAccepted(bytes) ==
  IF Len(bytes) < 8 THEN FALSE ELSE MagicMatches(ReadUInt32LEAt(bytes, 0))

\* response.arrayBuffer() resolves with the whole body
BodyComplete ==
  /\ pc = "body"
  /\ \E bytes \in PipelineBuffers :
       /\ response' = [response EXCEPT !.body = bytes]
       /\ IF RemoteBodyAccepted(bytes)
          THEN AcquisitionSucceeds(bytes)
          ELSE AcquisitionFails("ValidationError", "magic")
  /\ UNCHANGED <<timer, timeoutElapsed, existsRes, statRes, readRes, fileBytes, acqFrame>>

\* response.arrayBuffer() rejects: rethrown as it is
BodyFails ==
  /\ pc = "body"
  /\ AcquisitionFails("Error", "body")
  /\ UNCHANGED <<timer, timeoutElapsed, response, existsRes, statRes, readRes,
                 fileBytes, acqFrame>>

(***************************************************************************)
(* loadLocalFile()                                                         *)
(***************************************************************************)
ExistsSettles ==
  /\ pc = "localIO"
  /\ existsRes = "pending"
  /\ \E r \in {"true", "false", "rejected"} : existsRes' = r
  /\ UNCHANGED <<pc, timer, timeoutElapsed, response, statRes, readRes, fileBytes,
                 acqResult, acqDetail, buffer, errVars, acqFrame>>

\* a rejected stat() settles as null
StatSettles ==
  /\ pc = "localIO"
  /\ statRes = "pending"
  /\ \E r \in {"ok", "null"} : statRes' = r
  /\ UNCHANGED <<pc, timer, timeoutElapsed, response, existsRes, readRes, fileBytes,
                 acqResult, acqDetail, buffer, errVars, acqFrame>>

\* a rejected arrayBuffer() settles as null
ReadSettles ==
  /\ pc = "localIO"
  /\ readRes = "pending"
  /\ \E r \in {"ok", "null"} : readRes' = r
  /\ UNCHANGED <<pc, timer, timeoutElapsed, response, existsRes, statRes, fileBytes,
                 acqResult, acqDetail, buffer, errVars, acqFrame>>

\* Promise.all settles when one promise has rejected or all have resolved
AllSettled(e, s, r) ==
  e = "rejected" \/ (e # "pending" /\ s # "pending" /\ r # "pending")

\* the join not looking at the result of exists()
LocalAcceptedIgnoringExists(e, s, r) == s = "ok" /\ r = "ok"

\* !exists || !stats || !buffer rejects
LocalAccepted(e, s, r) == e = "true" /\ s = "ok" /\ r = "ok"

\* a size check that also rejects a file of exactly maxFileSize bytes
FileTooLargeInclusive(size, maxFileSize) == size >= maxFileSize

\* stats.size > this.config.maxFileSize
FileTooLarge(size, maxFileSize) == size > maxFileSize

\* the message of the ValidationError loadLocalFile throws, "none" when
\* it accepts the bytes; a rejection of exists() is wrapped by the catch block
LoadLocalVerdict(e, s, r, size, maxFileSize) ==
  IF e = "rejected" THEN "failedToLoad"
  ELSE IF ~LocalAccepted(e, s, r) THEN "notFound"
  ELSE IF FileTooLarge(size, maxFileSize) THEN "tooLarge"
  ELSE "none"

\* the continuation after await Promise.all([...])
LocalJoin ==
  /\ pc = "localIO"
  /\ AllSettled(existsRes, statRes, readRes)
  /\ LET verdict == LoadLocalVerdict(existsRes, statRes, readRes, Len(fileBytes),
                                     config.maxFileSize)
     IN IF verdict = "none"
        THEN AcquisitionSucceeds(fileBytes)
        ELSE AcquisitionFails("ValidationError", verdict)
  /\ UNCHANGED <<timer, timeoutElapsed, response, existsRes, statRes, readRes,
                 fileBytes, acqFrame>>

(***************************************************************************)
(* parseHeader()                                                           *)
(***************************************************************************)
\* one call of parseHeader on this.buffer
ParseHeaderEffect ==
  LET r == ParseHeaderOutcome(buffer, offset)
  IN /\ hdrResult' = r.result
     /\ hdrDetail' = r.detail
     /\ offset' = r.offset
     /\ header' = r.header
     /\ parseCalls' = parseCalls + 1

\* const header = this.parseHeader() in extract()
ParseHeader ==
  /\ pc = "parseHeader"
  /\ ParseHeaderEffect
  /\ ExtractStep("parseHeader",
                 IF ParseHeaderOutcome(buffer, offset).result = "ok" THEN "none"
                 ELSE ParseHeaderOutcome(buffer, offset).result)
  /\ UNCHANGED <<config, outputDir, pathVars, mutations, fsVars, zipVars,
                 cleanupAttempted, acqResult, manifestResult, manifestVars, acqVars, buffer,
                 readVars, nameVars, validatorVars, cliVars, joinVars, normVars, infoVars>>

\* parseHeader() called on its own
ParseHeaderCall ==
  /\ pc = "parseHeader"
  /\ parseCalls < MaxParseCalls
  /\ ParseHeaderEffect
  /\ UNCHANGED <<pc, config, outputDir, pathVars, mutations, fsVars, zipVars, errVars,
                 cleanupAttempted, acqResult, manifestResult, manifestVars, acqVars, buffer,
                 readVars, nameVars, validatorVars, cliVars, joinVars, normVars, infoVars>>

\* readUInt32LE(): result, value returned and cursor left behind
ReadUInt32LEOutcome(buf, cursor) ==
  IF buf = NoBuffer THEN [result |-> "Error", value |-> U32(0), offset |-> cursor]
  ELSE IF Underrun(buf, cursor)
    THEN [result |-> "ValidationError", value |-> U32(0), offset |-> cursor]
  ELSE [result |-> "ok", value |-> ReadUInt32LEAt(buf, cursor), offset |-> cursor + 4]

\* readUInt32LE() called on its own
ReadUInt32LE ==
  /\ pc = "parseHeader"
  /\ readCalls < MaxReadCalls
  /\ readResult' = ReadUInt32LEOutcome(buffer, offset).result
  /\ readValue' = ReadUInt32LEOutcome(buffer, offset).value
  /\ offset' = ReadUInt32LEOutcome(buffer, offset).offset
  /\ readCalls' = readCalls + 1
  /\ UNCHANGED <<pc, config, outputDir, pathVars, mutations, fsVars, zipVars, errVars,
                 cleanupAttempted, acqResult, hdrResult, manifestResult, manifestVars,
                 acqVars, buffer, header, hdrDetail, parseCalls, nameVars, validatorVars, cliVars, joinVars, normVars, infoVars>>

\* the path extract() hands to validatePath for the output directory
OutTarget(arg, cfg) ==
  IF arg # EmptyStr THEN arg ELSE Join(<<cfg.extensionsDir, extensionName>>)

ValidateOutDir ==
  /\ pc = "validateOut"
  /\ LET target == OutTarget(outputDir, config)
         ok == ValidatePathOk(target, config.allowedOutputPaths)
     IN /\ outDir' = IF ok THEN ValidatePathNormalized(target) ELSE outDir
        /\ validated' = IF ok THEN validated \cup {ValidatePathNormalized(target)}
                        ELSE validated
        /\ ExtractStep("validateOut", IF ok THEN "none" ELSE "SecurityError")
  /\ UNCHANGED <<config, outputDir, validCrxPath, tempDir, mutations, fsVars,
                 zipVars, stageVars>>

EnsureParent ==
  /\ pc = "ensureParent"
  /\ \E mkdirOk \in BOOLEAN :
       /\ EnsureDirectory(Dirname(outDir), mkdirOk)
       /\ ExtractStep("ensureParent",
                      EnsureDirectoryError(Dirname(outDir), config.allowedOutputPaths, mkdirOk))
  /\ UNCHANGED <<config, outputDir, outDir, validCrxPath, tempDir, fsVars,
                 zipVars, stageVars>>

\* rm -rf outDir && mkdir -p outDir; a failing command may have deleted
\* some, all or none of the prior contents
ClearOut ==
  /\ pc = "clearOut"
  /\ \E ok \in BOOLEAN, left \in BOOLEAN :
       /\ ok => ~left
       /\ priorContents' = (priorContents /\ left)
       /\ ExtractStep("clearOut", IF ok THEN "none" ELSE "Error")
  /\ mutations' = mutations \cup {Mutation("rm-mkdir", outDir, outDir)}
  /\ UNCHANGED <<config, outputDir, pathVars, crxSaved, tempExists, stagedZip,
                 entriesWritten, published, archivePublished, fallbackZip, zipVars, stageVars>>

\* `${extensionName}.crx`
CrxFileName == extensionName \o <<DOT, "c">>

ValidateCrx ==
  /\ pc = "validateCrx"
  /\ LET crxPath == Join(<<config.extensionsDir, CrxFileName>>)
         ok == ValidatePathOk(crxPath, config.allowedOutputPaths)
     IN /\ validCrxPath' = IF ok THEN ValidatePathNormalized(crxPath) ELSE validCrxPath
        /\ validated' = IF ok THEN validated \cup {ValidatePathNormalized(crxPath)}
                        ELSE validated
        /\ ExtractStep("validateCrx", IF ok THEN "none" ELSE "SecurityError")
  /\ UNCHANGED <<config, outputDir, outDir, tempDir, mutations, fsVars, zipVars,
                 stageVars>>

EnsureCrxDir ==
  /\ pc = "ensureCrxDir"
  /\ \E mkdirOk \in BOOLEAN :
       /\ EnsureDirectory(Dirname(validCrxPath), mkdirOk)
       /\ ExtractStep("ensureCrxDir",
                      EnsureDirectoryError(Dirname(validCrxPath),
                                           config.allowedOutputPaths, mkdirOk))
  /\ UNCHANGED <<config, outputDir, outDir, validCrxPath, tempDir, fsVars,
                 zipVars, stageVars>>

WriteCrx ==
  /\ pc = "writeCrx"
  /\ \E ok \in BOOLEAN :
       /\ crxSaved' = ok
       /\ ExtractStep("writeCrx", IF ok THEN "none" ELSE "Error")
  /\ mutations' = mutations \cup {Mutation("write", validCrxPath, Dirname(validCrxPath))}
  /\ UNCHANGED <<config, outputDir, pathVars, priorContents, tempExists, stagedZip,
                 entriesWritten, published, archivePublished, fallbackZip, zipVars, stageVars>>


(***************************************************************************)
(* extractZip(zipData, outputDir)                                          *)
(***************************************************************************)
\* `.tmp_${timestamp}`, 'archive.zip' and 'failed_extraction.zip'
TempDirName == <<DOT, "t">>
ArchiveName == <<"z">>
FallbackName == <<"f">>

EnsureTemp ==
  /\ pc = "ensureTemp"
  /\ LET dir == Join(<<outDir, TempDirName>>) IN
     /\ tempDir' = dir
     /\ \E mkdirOk \in BOOLEAN :
          LET err == EnsureDirectoryError(dir, config.allowedOutputPaths, mkdirOk) IN
          /\ EnsureDirectory(dir, mkdirOk)
          /\ tempExists' = (err = "none")
          /\ ExtractZipStep("ensureTemp", err)
  /\ UNCHANGED <<config, outputDir, outDir, validCrxPath, priorContents, crxSaved,
                 stagedZip, entriesWritten, published, archivePublished, fallbackZip, zipVars, stageVars>>

WriteZip ==
  /\ pc = "writeZip"
  /\ \E ok \in BOOLEAN :
       /\ stagedZip' = ok
       /\ ExtractZipStep("writeZip", IF ok THEN "none" ELSE "Error")
  /\ mutations' = mutations \cup {Mutation("write", Join(<<tempDir, ArchiveName>>), tempDir)}
  /\ UNCHANGED <<config, outputDir, pathVars, priorContents, crxSaved, tempExists,
                 entriesWritten, published, archivePublished, fallbackZip, zipVars, stageVars>>

\* const zipData = this.buffer.subarray(header.zipOffset)
ZipData(buf, hdr) == SubSeq(buf, hdr.zipOffset + 1, Len(buf))

\* validateZipSecurity(zipPath): getZipInfo either yields a summary or
\* fails with ExtractionError; the summary is then held against the ceilings.
\* compressedSize is the size stat reports for the file that Bun.write made
\* of zipData.
ValidateZip ==
  /\ pc = "validateZip"
  /\ \E info \in ZipInfos(Len(ZipData(buffer, header))) \cup {NoZipInfo} :
       LET verdict == IF info = NoZipInfo THEN "infoFail"
                      ELSE ValidateZipSecurity(info, config)
       IN /\ zipInfo' = info
          /\ secResult' = verdict
          /\ ExtractZipStep("validateZip", SecurityVerdictError(verdict))
  /\ UNCHANGED <<config, outputDir, pathVars, mutations, fsVars, unzipCalls,
                 unzipExit, stageVars>>

\* unzip -q -o zipPath -d tempDir; a failing run may have written entries
Unzip ==
  /\ pc = "unzip"
  /\ \E exit \in {0, 1}, wrote \in BOOLEAN :
       /\ exit = 0 => wrote
       /\ unzipExit' = exit
       /\ entriesWritten' = wrote
       /\ ExtractZipStep("unzip", IF exit = 0 THEN "none" ELSE "ExtractionError")
  /\ unzipCalls' = unzipCalls + 1
  /\ mutations' = mutations \cup {Mutation("unzip", tempDir, tempDir)}
  /\ UNCHANGED <<config, outputDir, pathVars, priorContents, crxSaved, tempExists,
                 stagedZip, published, archivePublished, fallbackZip, zipInfo, secResult, stageVars>>

\* mv tempDir/* outDir/ 2>/dev/null || true: never fails, may move nothing.
\* The staging directory holds archive.zip beside the entries, and the
\* pattern matches it.
Mv ==
  /\ pc = "mv"
  /\ \E moved \in BOOLEAN, archiveMoved \in BOOLEAN :
       /\ published' = moved
       /\ archivePublished' = (stagedZip /\ archiveMoved)
       /\ stagedZip' = (stagedZip /\ ~archiveMoved)
  /\ ExtractZipStep("mv", "none")
  /\ mutations' = mutations \cup {Mutation("mv", outDir, outDir)}
  /\ UNCHANGED <<config, outputDir, pathVars, priorContents, crxSaved, tempExists,
                 entriesWritten, fallbackZip, zipVars, stageVars>>

\* a catch block that rethrows the error it caught
CatchErrorRethrow(caught, writeOk) ==
  IF writeOk THEN [kind |-> caught, namesFallback |-> FALSE]
  ELSE [kind |-> "Error", namesFallback |-> FALSE]

\* the error the catch block leaves: the ExtractionError naming the
\* fallback path, or the error of the failed fallback write
CatchError(caught, writeOk) ==
  IF writeOk THEN [kind |-> "ExtractionError", namesFallback |-> TRUE]
  ELSE [kind |-> "Error", namesFallback |-> FALSE]

Catch ==
  /\ pc = "catch"
  /\ \E writeOk \in BOOLEAN :
       /\ fallbackZip' = writeOk
       /\ pending' = CatchError(thrown, writeOk).kind
       /\ errNamesFallback' = CatchError(thrown, writeOk).namesFallback
  /\ mutations' = mutations \cup {Mutation("write", Join(<<outDir, FallbackName>>), outDir)}
  /\ pc' = "finally"
  /\ errorStream' = errorStream \o LoggerError(logLevel, "Extraction failed", TRUE)
  /\ UNCHANGED <<config, outputDir, pathVars, priorContents, crxSaved, tempExists,
                 stagedZip, entriesWritten, published, archivePublished, zipVars, thrown, error,
                 failedAt, stages, stageVars>>

\* a finally block whose failing rm -rf escapes
FinallyOutcomeRmThrows(err, rmOk) == IF rmOk THEN err ELSE "Error"

\* the error that leaves the finally block: a failing rm -rf is caught
\* and only logged
FinallyOutcome(err, rmOk) == err

Finally ==
  /\ pc = "finally"
  /\ \E rmOk \in BOOLEAN :
       /\ tempExists' = (tempExists /\ ~rmOk)
       /\ stagedZip' = (stagedZip /\ ~rmOk)
       /\ error' = FinallyOutcome(pending, rmOk)
       /\ pc' = IF FinallyOutcome(pending, rmOk) = "none" THEN "readManifest" ELSE "rejected"
       /\ errorStream' =
            errorStream
              \o (IF rmOk THEN << >>
                  ELSE LoggerWarn(logLevel, "Failed to clean up temp directory"))
              \o (IF FinallyOutcome(pending, rmOk) = "none" THEN << >> ELSE ExtractCatchLog)
  /\ cleanupAttempted' = TRUE
  /\ mutations' = mutations \cup {Mutation("rm", tempDir, tempDir)}
  /\ UNCHANGED <<config, outputDir, pathVars, priorContents, crxSaved, entriesWritten,
                 published, archivePublished, fallbackZip, zipVars, thrown, pending, errNamesFallback,
                 failedAt, stages, acqResult, hdrResult, manifestResult, manifestVars, acqVars, hdrVars,
                 nameVars, validatorVars, cliVars, joinVars, normVars, infoVars>>

\* how the reads of manifest.json can end: exists() rejects, exists() is
\* false, json() rejects (unreadable or not JSON), json() returns a document
ManifestReads == {"existsFailed", "missing", "unreadable", "parsed"}

\* what readManifest makes of a read and of the verdict on the document
ReadManifestResult(read, verdict) ==
  IF read # "parsed" THEN read
  ELSE IF verdict = "ok" THEN "valid" ELSE "invalid"

\* a readManifest that lets the error of validateManifest escape
ReadManifestErrorUncaught(read, verdict) ==
  IF read = "existsFailed" THEN "Error"
  ELSE IF read = "parsed" /\ verdict # "ok" THEN verdict
  ELSE "none"

\* the error readManifest throws: the existence check is awaited outside
\* the try block, everything after it is caught and answered with null
ReadManifestError(read, verdict) ==
  IF read = "existsFailed" THEN "Error" ELSE "none"

\* what readManifest hands to the logger: a warning for a missing file,
\* an error for a file that cannot be parsed or fails validateManifest
ReadManifestLog(result) ==
  IF result = "missing" THEN LoggerWarn(logLevel, "manifest.json not found")
  ELSE IF result \in {"unreadable", "invalid"}
    THEN LoggerError(logLevel, "Failed to parse manifest", TRUE)
  ELSE << >>

\* const manifest = await this.readManifest(outDir)
ReadManifest ==
  /\ pc = "readManifest"
  /\ \E read \in ManifestReads, data \in PipelineManifests :
       LET v == ValidateManifest(data)
           err == ReadManifestError(read, v.result)
       IN /\ manifestResult' = ReadManifestResult(read, v.result)
          /\ rawManifest' = IF read = "parsed" THEN data ELSE rawManifest
          /\ manifest' = IF read = "parsed" THEN v.manifest ELSE manifest
          /\ manifestField' = IF read = "parsed" THEN v.field ELSE manifestField
          /\ pc' = IF err = "none" THEN "done" ELSE "rejected"
          /\ error' = IF err = "none" THEN error ELSE err
          /\ failedAt' = IF err = "none" THEN failedAt ELSE "readManifest"
          /\ errorStream' = errorStream \o ReadManifestLog(ReadManifestResult(read, v.result))
                              \o (IF err = "none" THEN << >> ELSE ExtractCatchLog)
  /\ stages' = Append(stages, "manifest")
  /\ UNCHANGED <<config, outputDir, pathVars, mutations, fsVars, zipVars, thrown, pending,
                 errNamesFallback, cleanupAttempted, acqResult, hdrResult, acqVars, hdrVars,
                 nameVars, validatorVars, cliVars, joinVars, normVars, infoVars>>

Next ==
  \/ Extract
  \/ LoadInput
  \/ TimeoutElapses
  \/ FetchAborted
  \/ HeadersArrive
  \/ FetchFails
  \/ BodyComplete
  \/ BodyFails
  \/ ExistsSettles
  \/ StatSettles
  \/ ReadSettles
  \/ LocalJoin
  \/ ParseHeader
  \/ ValidateOutDir
  \/ EnsureParent
  \/ ClearOut
  \/ ValidateCrx
  \/ EnsureCrxDir
  \/ WriteCrx
  \/ EnsureTemp
  \/ WriteZip
  \/ ValidateZip
  \/ Unzip
  \/ Mv
  \/ Catch
  \/ Finally
  \/ ReadManifest

Spec == Init /\ [][Next]_vars

(***************************************************************************)
(* validatePath as a function of its argument: every candidate path is     *)
(* handed to the validation of the output directory.                       *)
(***************************************************************************)
\* the state in which loadLocalFile has accepted the bytes of a file
LoadedLocal(bytes) ==
  /\ input = LocalInput
  /\ extensionId = NoId
  /\ mode = "local"
  /\ timer = "unset"
  /\ timeoutElapsed = FALSE
  /\ response = NoResponse
  /\ existsRes = "true"
  /\ statRes = "ok"
  /\ readRes = "ok"
  /\ fileBytes = bytes
  /\ acqDetail = "none"
  /\ acqResult = "ok"
  /\ buffer = bytes

PathInit ==
  /\ pc = "validateOut"
  /\ config \in Configs
  /\ outputDir \in CandidatePaths
  /\ LoadedLocal(ValidV3)
  /\ hdrResult = ParseHeaderOutcome(ValidV3, 0).result
  /\ hdrDetail = "none"
  /\ offset = ParseHeaderOutcome(ValidV3, 0).offset
  /\ header = ParseHeaderOutcome(ValidV3, 0).header
  /\ parseCalls = 1
  /\ ReaderIdle
  /\ NamesIdle
  /\ ManifestIdle
  /\ ZipInfoIdle
  /\ NormalizeIdle
  /\ JoinIdle
  /\ CliIdle
  /\ ValidatorIdle
  /\ BeforeExtract

PathNext == ValidateOutDir

SpecPath == PathInit /\ [][PathNext]_vars


(***************************************************************************)
(* Properties.                                                             *)
(***************************************************************************)
SecurityViolations == {"ratio", "count", "size"}

\* the three ceilings as the specification states them, on the quotient
\* of the sizes
ClaimRatioExceeded(info, cfg) ==
  \/ info.uncompressedSize \div info.compressedSize > cfg.maxExtractionRatio
  \/ /\ info.uncompressedSize \div info.compressedSize = cfg.maxExtractionRatio
     /\ info.uncompressedSize % info.compressedSize > 0

ClaimVerdict(info, cfg) ==
  CASE ClaimRatioExceeded(info, cfg) -> "ratio"
    [] ~ClaimRatioExceeded(info, cfg) /\ info.fileCount >= cfg.maxExtractedFiles + 1 -> "count"
    [] /\ ~ClaimRatioExceeded(info, cfg)
       /\ info.fileCount <= cfg.maxExtractedFiles
       /\ info.uncompressedSize >= cfg.maxExtractedSize + 1 -> "size"
    [] OTHER -> "pass"

\* C1: whenever the security inspection of the staged archive fails, after
\* extract() has returned no file holding the rejected payload remains on
\* disk: no fallback archive, no staged archive, no copy of the container.
C1_NoPayloadLeftAfterSecurityFailure ==
  (pc = "rejected" /\ secResult \in SecurityViolations)
    => (~fallbackZip /\ ~stagedZip /\ ~crxSaved)

\* C2: whenever the staged archive violates a ceiling, the error extract()
\* propagates is a SecurityError and of no other kind.
C2_SecurityFailureSurfacesSecurityError ==
  (pc = "rejected" /\ secResult \in SecurityViolations) => error = "SecurityError"

\* C3: the decompression utility is invoked only after validateZipSecurity
\* completed without error on the staged archive; if a ceiling is violated
\* or the summary cannot be obtained, no archive entry is ever written.
C3_UnzipOnlyAfterSecurityPass ==
  /\ unzipCalls > 0 => (secResult = "pass" /\ ClaimVerdict(zipInfo, config) = "pass")
  /\ (secResult = "infoFail"
        \/ (secResult \notin {"none", "infoFail"} /\ ClaimVerdict(zipInfo, config) # "pass"))
       => (unzipCalls = 0 /\ ~entriesWritten /\ ~published)

C3_Witness ==
  unzipCalls = 1 /\ secResult = "pass" /\ entriesWritten

\* C4: validateZipSecurity rejects iff the ratio, the file count or the
\* uncompressed size is above its ceiling, reports the first violation in
\* the order ratio, file count, size, and lets a value equal to its ceiling
\* pass.
C4_SecurityVerdict ==
  secResult \notin {"none", "infoFail"} => secResult = ClaimVerdict(zipInfo, config)

C4_Witness ==
  /\ config = DEFAULT_CONFIG
  /\ zipInfo.fileCount = 10000
  /\ zipInfo.uncompressedSize = 500
  /\ zipInfo.compressedSize = 5
  /\ secResult = "pass"

EarlySteps == {"loadInput", "parseHeader", "validateOut", "ensureParent"}
StagingSteps == {"ensureTemp", "writeZip", "validateZip", "unzip"}

C6_CleanupOnEveryExit ==
  /\ []((tempDir # EmptyStr /\ pc \in {"readManifest", "done", "rejected"})
          => cleanupAttempted)
  /\ [][pc = "finally" =>
          /\ error' = pending
          /\ pc' = IF pending = "none" THEN "readManifest" ELSE "rejected"]_vars

C6_Witness ==
  /\ pc = "rejected"
  /\ cleanupAttempted
  /\ tempExists
  /\ failedAt = "unzip"
  /\ error = "Error"

\* C7 as stated: when the decompression utility exits with a non-zero code,
\* extract() fails with an ExtractionError naming the fallback path and the
\* payload has been written to failed_extraction.zip in the output directory.
C7_FallbackAlwaysSaved ==
  (pc = "rejected" /\ unzipExit = 1)
    => (error = "ExtractionError" /\ errNamesFallback /\ fallbackZip)

\* C7 as amended: when the decompression utility exits with a non-zero code,
\* the write of failed_extraction.zip into the output directory is attempted
\* before the error is propagated; if the write succeeds extract() fails
\* with an ExtractionError naming the fallback path and the file is on disk,
\* and if the write fails extract() fails with the error of that write.
C7_FallbackSavedWhenWritable ==
  (unzipExit = 1 /\ pc \in {"finally", "rejected"}) =>
    /\ Mutation("write", Join(<<outDir, FallbackName>>), outDir) \in mutations
    /\ fallbackZip => (pending = "ExtractionError" /\ errNamesFallback)
    /\ ~fallbackZip => (pending = "Error" /\ ~errNamesFallback)
    /\ pc = "rejected" => error = pending

C7_Witness ==
  /\ pc = "rejected"
  /\ unzipExit = 1
  /\ fallbackZip
  /\ error = "ExtractionError"
  /\ errNamesFallback

\* C8: if acquisition or header parsing fails, extract() rejects at once
\* with that error and has performed no filesystem mutation.
C8_NoMutationOnEarlyFailure ==
  /\ acqResult \notin {"none", "ok"} =>
       (pc = "rejected" /\ error = acqResult /\ hdrResult = "none")
  /\ hdrResult \notin {"none", "ok"} => (pc = "rejected" /\ error = hdrResult)
  /\ (acqResult \notin {"none", "ok"} \/ hdrResult \notin {"none", "ok"}) =>
       /\ mutations = {}
       /\ priorContents
       /\ ~crxSaved /\ ~tempExists /\ ~stagedZip /\ ~fallbackZip /\ ~published

C8_Witness ==
  pc = "rejected" /\ acqResult = "ok" /\ hdrResult = "ValidationError"

\* the stack of names left by the first n parts of a path, ".." removing
\* the last name and stopping at the root
RECURSIVE ClaimStack(_, _)
ClaimStack(parts, n) ==
  IF n = 0 THEN << >>
  ELSE LET before == ClaimStack(parts, n - 1) IN
       CASE parts[n] \in {EmptyStr, <<DOT>>} -> before
         [] parts[n] = <<DOT, DOT>> ->
              [i \in 1..(IF Len(before) = 0 THEN 0 ELSE Len(before) - 1) |-> before[i]]
         [] OTHER -> before \o <<parts[n]>>

\* the names of the lexically normalized form of p, p being joined onto the
\* captured working directory when relative
ClaimNormalNames(p) ==
  LET absolute == IF Len(p) > 0 /\ p[1] = SLASH THEN p
                  ELSE workingDirectory \o <<SLASH>> \o p
      parts == Split(absolute)
  IN ClaimStack(parts, Len(parts))

\* p equals a root or is a strict descendant of one
ClaimWithinRoots(p, allowedPaths) ==
  \E i \in 1..Len(allowedPaths) :
    LET root == ClaimNormalNames(allowedPaths[i])
        names == ClaimNormalNames(p)
    IN Len(root) <= Len(names) /\ SubSeq(names, 1, Len(root)) = root

\* C9: validatePath(p) succeeds iff the lexically normalized form of p equals
\* an allowed root or is a strict descendant of one, and fails with
\* SecurityError otherwise.
C9_ValidatePathIffWithinRoots ==
  pc \in {"ensureParent", "rejected"} =>
    /\ (pc = "ensureParent") <=> ClaimWithinRoots(outputDir, config.allowedOutputPaths)
    /\ pc = "rejected" => error = "SecurityError"

\* C10: the target of every filesystem mutation of extract() equals or
\* descends from a resolved allowed root, and no directory is created or
\* written into without its path having passed validatePath.
C10_MutationsWithinRoots ==
  \A m \in mutations :
    /\ ClaimWithinRoots(m.path, config.allowedOutputPaths)
    /\ m.dir \in validated

C10_Witness ==
  /\ pc = "rejected"
  /\ crxSaved
  /\ fallbackZip
  /\ unzipCalls = 1
  /\ Cardinality(mutations) >= 8

(***************************************************************************)
(* parseHeader as a function of the buffer: every container image and      *)
(* every truncation of one is parsed, up to MaxParseCalls times in a row.  *)
(***************************************************************************)
\* an extractor on which loadInput has not run
NotLoaded ==
  /\ input = LocalInput
  /\ extensionId = NoId
  /\ mode = "none"
  /\ acqResult = "none"
  /\ buffer = NoBuffer
  /\ AcquisitionIdle

HeaderInit ==
  /\ pc = "parseHeader"
  /\ config = DEFAULT_CONFIG
  /\ outputDir = EmptyStr
  /\ \/ \E b \in HeaderBuffers : LoadedLocal(b)
     \/ NotLoaded
  /\ hdrResult = "none"
  /\ HeaderIdle
  /\ NamesIdle
  /\ ManifestIdle
  /\ ZipInfoIdle
  /\ NormalizeIdle
  /\ JoinIdle
  /\ CliIdle
  /\ ValidatorIdle
  /\ BeforeExtract

HeaderNext == ParseHeaderCall \/ ReadUInt32LE

SpecHeader == HeaderInit /\ [][HeaderNext]_vars

\* the 32-bit little-endian value at bytes i..i+3 (1-based) of a buffer,
\* for values below 2^31
ClaimFits(buf, i) == buf[i + 3] < 128
ClaimValue(buf, i) ==
  buf[i] + 256 * buf[i + 1] + 65536 * buf[i + 2] + 16777216 * buf[i + 3]

ClaimStartsWithMagic(buf) ==
  Len(buf) >= 4 /\ ClaimFits(buf, 1) /\ ClaimValue(buf, 1) = CRX_MAGIC

ClaimVersionIs(buf, v) ==
  Len(buf) >= 8 /\ ClaimFits(buf, 5) /\ ClaimValue(buf, 5) = v

\* a length field that is readable and smaller than the buffer length
ClaimFieldBelowLength(buf, i) ==
  Len(buf) >= i + 3 /\ ClaimFits(buf, i) /\ ClaimValue(buf, i) < Len(buf)

\* the archive offset of a version 2 / version 3 image lies inside the buffer
ClaimV2OffsetInside(buf) ==
  /\ ClaimVersionIs(buf, 2)
  /\ ClaimFieldBelowLength(buf, 9)
  /\ ClaimFieldBelowLength(buf, 13)
  /\ 16 + ClaimValue(buf, 9) + ClaimValue(buf, 13) < Len(buf)

ClaimV3OffsetInside(buf) ==
  /\ ClaimVersionIs(buf, 3)
  /\ ClaimFieldBelowLength(buf, 9)
  /\ 12 + ClaimValue(buf, 9) < Len(buf)

\* C11: for every buffer that starts with the magic and whose computed
\* archive offset is smaller than the buffer length, parseHeader returns the
\* version read and zipOffset = 16 + publicKeyLength + signatureLength for
\* version 2, 12 + headerSize for version 3, the fields being read as
\* little-endian unsigned 32-bit integers.
C11_HeaderOffsets ==
  (parseCalls >= 1 /\ ClaimStartsWithMagic(buffer)) =>
    /\ ClaimV2OffsetInside(buffer) =>
         /\ hdrResult = "ok"
         /\ header = [version |-> 2,
                      zipOffset |-> 16 + ClaimValue(buffer, 9) + ClaimValue(buffer, 13)]
    /\ ClaimV3OffsetInside(buffer) =>
         /\ hdrResult = "ok"
         /\ header = [version |-> 3, zipOffset |-> 12 + ClaimValue(buffer, 9)]

C11_Witness ==
  /\ parseCalls >= 1
  /\ hdrResult = "ok"
  /\ header = [version |-> 2, zipOffset |-> 18]
  /\ ClaimValue(buffer, 9) = 1
  /\ ClaimValue(buffer, 13) = 1

\* the exact archive offset of the image lies inside the buffer
ClaimOffsetInside(buf) == ClaimV2OffsetInside(buf) \/ ClaimV3OffsetInside(buf)

\* C12: parseHeader returns a header only if the version is 2 or 3 and the
\* computed archive offset is smaller than the buffer length; a computed
\* offset that reaches or exceeds the length fails with ValidationError,
\* also when the sum of the fields exceeds 2^32 - 1 (the sum never wraps
\* into a small accepted offset), and any other version fails with
\* ValidationError.
C12_HeaderOnlyWhenInside ==
  (parseCalls >= 1 /\ ClaimStartsWithMagic(buffer)) =>
    /\ hdrResult = "ok" =>
         /\ header.version \in {2, 3}
         /\ header.zipOffset < Len(buffer)
         /\ ClaimOffsetInside(buffer)
    /\ ~ClaimOffsetInside(buffer) => (hdrResult = "ValidationError" /\ header = NoHeader)

C12_Witness ==
  /\ parseCalls >= 1
  /\ ClaimStartsWithMagic(buffer)
  /\ ClaimVersionIs(buffer, 2)
  /\ Len(buffer) >= 17
  /\ SubSeq(buffer, 9, 12) = <<255, 255, 255, 255>>
  /\ SubSeq(buffer, 13, 16) = <<255, 255, 255, 255>>
  /\ hdrResult = "ValidationError"
  /\ hdrDetail = "offset"

\* C13: a buffer whose first four bytes differ from the magic 0x34327243,
\* a buffer shorter than four bytes included, always fails with
\* ValidationError.
C13_BadMagicFails ==
  (parseCalls >= 1 /\ buffer # NoBuffer /\ ~ClaimStartsWithMagic(buffer)) =>
    (hdrResult = "ValidationError" /\ header = NoHeader)

C13_Witness ==
  /\ parseCalls >= 1
  /\ Len(buffer) = 3
  /\ hdrResult = "ValidationError"
  /\ hdrDetail = "underrun"

\* C14: parseHeader is idempotent and all-or-nothing: a repeated call on the
\* same buffer, also after a call that failed part-way and left the cursor
\* advanced, yields the same header or the same failure.
C14_ParseHeaderIdempotent ==
  [][(parseCalls >= 1 /\ parseCalls' = parseCalls + 1) =>
       /\ hdrResult' = hdrResult
       /\ hdrDetail' = hdrDetail
       /\ header' = header
       /\ (hdrResult' # "ok" => header' = NoHeader)]_vars

C14_Witness ==
  /\ parseCalls = 2
  /\ hdrResult = "ValidationError"
  /\ hdrDetail = "version"
  /\ offset = 8

(***************************************************************************)
(* sanitizeFilename as a function of its argument: every name is           *)
(* sanitized, and the result is sanitized once more.                       *)
(***************************************************************************)
SanitizeInit ==
  /\ pc = "sanitize"
  /\ config = DEFAULT_CONFIG
  /\ outputDir = EmptyStr
  /\ rawName \in Names
  /\ sanitizedName = EmptyStr
  /\ resanitizedName = EmptyStr
  /\ input = LocalInput
  /\ extensionId = NoId
  /\ mode = "local"
  /\ acqResult = "none"
  /\ hdrResult = "none"
  /\ buffer = NoBuffer
  /\ AcquisitionIdle
  /\ HeaderIdle
  /\ ManifestIdle
  /\ ZipInfoIdle
  /\ NormalizeIdle
  /\ JoinIdle
  /\ CliIdle
  /\ ValidatorIdle
  /\ BeforeExtract

Sanitize ==
  /\ pc = "sanitize"
  /\ sanitizedName' = SanitizeFilename(rawName)
  /\ pc' = "resanitize"
  /\ UNCHANGED <<config, outputDir, pathVars, mutations, fsVars, zipVars, errVars,
                 cleanupAttempted, acqResult, hdrResult, manifestResult, manifestVars, acqVars,
                 hdrVars, rawName, resanitizedName, validatorVars, cliVars, joinVars, normVars, infoVars>>

SanitizeAgain ==
  /\ pc = "resanitize"
  /\ resanitizedName' = SanitizeFilename(sanitizedName)
  /\ pc' = "sanitized"
  /\ UNCHANGED <<config, outputDir, pathVars, mutations, fsVars, zipVars, errVars,
                 cleanupAttempted, acqResult, hdrResult, manifestResult, manifestVars, acqVars,
                 hdrVars, rawName, sanitizedName, validatorVars, cliVars, joinVars, normVars, infoVars>>

SanitizeNext == Sanitize \/ SanitizeAgain

SpecSanitize == SanitizeInit /\ [][SanitizeNext]_vars

\* C15: sanitizeFilename is idempotent: sanitizing its own result returns
\* that result, for every name, names longer than 200 characters and names
\* with white space around the 200th character included.
C15_SanitizeIdempotent ==
  pc = "sanitized" => resanitizedName = sanitizedName

\* the control characters 0x00-0x1F and 0x7F
ClaimControlChars == {"NUL", "US", "DEL"}

\* C16: the result of sanitizeFilename is never empty, has at most 200
\* characters and contains no '/', no '\' and no control character
\* (0x00-0x1F and 0x7F).
C16_SanitizedNameSafe ==
  pc \in {"resanitize", "sanitized"} =>
    /\ Len(sanitizedName) >= 1
    /\ Len(sanitizedName) <= 200
    /\ \A i \in 1..Len(sanitizedName) :
         sanitizedName[i] \notin {"/", "\\"} \cup ClaimControlChars

(***************************************************************************)
(* Acquisition.                                                            *)
(***************************************************************************)
\* C17: in remote mode, if the download timeout elapses before the response
\* headers have arrived or before the response body has been completely
\* read, the request is aborted and extract() fails with the DownloadError
\* 'Download timed out after <n>ms'; no download, in either phase, stays
\* pending or succeeds after the timeout has elapsed.
C17_TimeoutBoundsDownload ==
  (mode = "remote" /\ timeoutElapsed) =>
    /\ timer = "fired"
    /\ acqResult # "ok"
    /\ pc \in {"fetch", "body", "rejected"}
    /\ pc = "rejected" => (error = "DownloadError" /\ acqDetail = "timeout")

\* the acquisition failed: extract() rejected with the error, this.buffer
\* was never assigned and parseHeader was never called
ClaimAcquisitionRejected(kind) ==
  /\ pc = "rejected"
  /\ error = kind
  /\ buffer = NoBuffer
  /\ parseCalls = 0
  /\ hdrResult = "none"

\* C18: remote bytes are accepted only if the response status is 2xx, the
\* content type is not HTML and the body starts with the magic; a non-2xx
\* status fails with DownloadError, an HTML content type fails with
\* DownloadError, and a body not starting with the magic fails with
\* ValidationError; in each case the buffer is never set and header parsing
\* never starts.
C18_RemoteBytesAccepted ==
  mode = "remote" =>
    /\ acqResult = "ok" =>
         /\ response.ok
         /\ ~response.html
         /\ ClaimStartsWithMagic(buffer)
         /\ buffer = response.body
    /\ (response.arrived /\ ~response.ok) => ClaimAcquisitionRejected("DownloadError")
    /\ (response.arrived /\ response.html) => ClaimAcquisitionRejected("DownloadError")
    /\ (response.body # NoBuffer /\ ~ClaimStartsWithMagic(response.body)) =>
         ClaimAcquisitionRejected("ValidationError")

C18_Witness ==
  /\ mode = "remote"
  /\ response.ok
  /\ ~response.html
  /\ Len(response.body) >= 8
  /\ ~ClaimStartsWithMagic(response.body)
  /\ pc = "rejected"
  /\ error = "ValidationError"

\* C19: a local file whose stat size exceeds maxFileSize makes extract()
\* fail with ValidationError before header parsing; its bytes are never
\* stored as the buffer and parseHeader is never called; a file whose size
\* equals maxFileSize is accepted.
C19_LocalSizeLimit ==
  (mode = "local" /\ pc # "localIO" /\ statRes = "ok") =>
    /\ Len(fileBytes) > config.maxFileSize => ClaimAcquisitionRejected("ValidationError")
    /\ (Len(fileBytes) = config.maxFileSize /\ existsRes = "true" /\ readRes = "ok") =>
         (acqResult = "ok" /\ buffer = fileBytes)

C19_Witness ==
  /\ mode = "local"
  /\ existsRes = "true"
  /\ statRes = "ok"
  /\ readRes = "ok"
  /\ Len(fileBytes) = config.maxFileSize + 1
  /\ pc = "rejected"
  /\ error = "ValidationError"
  /\ acqDetail = "tooLarge"

\* the three operations all succeeded and the file exists
ClaimAllThreeSucceeded == existsRes = "true" /\ statRes = "ok" /\ readRes = "ok"

\* C20: in local mode the existence check, the stat and the read run
\* concurrently and are joined; for every completion order and every
\* combination of successes and failures the buffer is accepted only if all
\* three succeeded and the existence check returned true, otherwise
\* extract() fails with ValidationError; the outcome does not depend on the
\* order in which the three complete.
C20_LocalJoin ==
  (mode = "local" /\ pc \notin {"idle", "loadInput", "localIO"}) =>
    /\ acqResult = "ok" => (ClaimAllThreeSucceeded /\ buffer = fileBytes)
    /\ ~ClaimAllThreeSucceeded => ClaimAcquisitionRejected("ValidationError")
    /\ acqResult = IF ClaimAllThreeSucceeded /\ Len(fileBytes) <= config.maxFileSize
                   THEN "ok" ELSE "ValidationError"

C20_Witness ==
  /\ mode = "local"
  /\ existsRes = "false"
  /\ statRes = "ok"
  /\ readRes = "ok"
  /\ pc = "rejected"
  /\ error = "ValidationError"

(***************************************************************************)
(* loadInput as a function of the input string: every input string is      *)
(* acquired, remotely or locally.                                          *)
(***************************************************************************)
AcquireInit ==
  /\ pc = "loadInput"
  /\ config = DEFAULT_CONFIG
  /\ outputDir = EmptyStr
  /\ input \in InputStrings
  /\ extensionId = NoId
  /\ mode = "none"
  /\ acqResult = "none"
  /\ hdrResult = "none"
  /\ buffer = NoBuffer
  /\ AcquisitionIdle
  /\ HeaderIdle
  /\ NamesIdle
  /\ ManifestIdle
  /\ ZipInfoIdle
  /\ NormalizeIdle
  /\ JoinIdle
  /\ CliIdle
  /\ ValidatorIdle
  /\ BeforeExtract

AcquireNext ==
  \/ LoadInput
  \/ TimeoutElapses
  \/ FetchAborted
  \/ HeadersArrive
  \/ FetchFails
  \/ BodyComplete
  \/ BodyFails
  \/ ExistsSettles
  \/ StatSettles
  \/ ReadSettles
  \/ LocalJoin

SpecAcquire == AcquireInit /\ [][AcquireNext]_vars

ClaimLower == {"a", "z"}

\* 32 consecutive lowercase letters start at index i
ClaimRunAt(s, i) == i + 31 <= Len(s) /\ \A j \in 0..31 : s[i + j] \in ClaimLower

ClaimHasRun(s) == \E i \in 1..Len(s) : ClaimRunAt(s, i)

\* no step of the remote acquisition has run
ClaimRemoteUntouched == timer = "unset" /\ ~timeoutElapsed /\ response = NoResponse

\* no step of the local acquisition has run
ClaimLocalUntouched ==
  existsRes = "idle" /\ statRes = "idle" /\ readRes = "idle" /\ fileBytes = NoBuffer

\* C21: exactly one acquisition mode is used per extract(): remote iff the
\* input contains a run of 32 consecutive lowercase letters anywhere, the
\* identifier being the first such 32 letters, local for every other input;
\* the two are never both attempted and a failed remote acquisition never
\* falls back to a local read.
C21_OneAcquisitionMode ==
  pc # "loadInput" =>
    /\ mode = IF ClaimHasRun(input) THEN "remote" ELSE "local"
    /\ mode = "remote" =>
         /\ \E i \in 1..Len(input) :
              /\ ClaimRunAt(input, i)
              /\ \A j \in 1..(i - 1) : ~ClaimRunAt(input, j)
              /\ extensionId = SubSeq(input, i, i + 31)
         /\ timer # "unset"
         /\ ClaimLocalUntouched
    /\ mode = "local" =>
         /\ existsRes # "idle"
         /\ ClaimRemoteUntouched

C21_Witness ==
  /\ mode = "remote"
  /\ Len(input) > 33
  /\ input[1] = SLASH
  /\ extensionId = SubSeq(input, 2, 33)
  /\ pc = "rejected"
  /\ error = "DownloadError"
  /\ ClaimLocalUntouched

(***************************************************************************)
(* Stage order.                                                            *)
(***************************************************************************)
ClaimStageOrder ==
  <<"acquisition", "header", "staging", "security", "decompression", "publishing",
    "manifest">>

\* the outcome of the k-th stage of the order, once a later stage has begun
ClaimStageSucceeded(k) ==
  CASE k = 1 -> acqResult = "ok" /\ buffer # NoBuffer
    [] k = 2 -> hdrResult = "ok"
    [] k = 3 -> tempDir # EmptyStr /\ failedAt \notin {"ensureTemp", "writeZip"}
    [] k = 4 -> secResult = "pass"
    [] k = 5 -> unzipExit = 0 /\ entriesWritten
    [] k = 6 -> failedAt \in {"none", "readManifest"} /\ cleanupAttempted
    [] OTHER -> TRUE

ClaimTerminal == {"done", "rejected"}

C23_ManifestNeverFailsExtract ==
  manifestResult \in {"missing", "unreadable", "invalid"} =>
    /\ pc = "done"
    /\ error = "none"
    /\ failedAt = "none"
    /\ manifest = NoManifest
    /\ stages = ClaimStageOrder

C23_Witness ==
  /\ manifestResult = "invalid"
  /\ rawManifest = Object(NoFields)
  /\ manifestField = "name"
  /\ pc = "done"

(***************************************************************************)
(* validateManifest as a function of its argument: every document is       *)
(* validated.                                                              *)
(***************************************************************************)
ManifestInit ==
  /\ pc = "validateManifest"
  /\ config = DEFAULT_CONFIG
  /\ outputDir = EmptyStr
  /\ rawManifest \in ManifestInputs
  /\ manifest = NoManifest
  /\ manifestField = "none"
  /\ input = LocalInput
  /\ extensionId = NoId
  /\ mode = "none"
  /\ acqResult = "none"
  /\ hdrResult = "none"
  /\ buffer = NoBuffer
  /\ AcquisitionIdle
  /\ HeaderIdle
  /\ NamesIdle
  /\ ZipInfoIdle
  /\ NormalizeIdle
  /\ JoinIdle
  /\ CliIdle
  /\ ValidatorIdle
  /\ BeforeExtract

ValidateManifestCall ==
  /\ pc = "validateManifest"
  /\ manifestResult' = ValidateManifest(rawManifest).result
  /\ manifestField' = ValidateManifest(rawManifest).field
  /\ manifest' = ValidateManifest(rawManifest).manifest
  /\ pc' = "validated"
  /\ UNCHANGED <<config, outputDir, pathVars, mutations, fsVars, zipVars, errVars,
                 cleanupAttempted, acqResult, hdrResult, rawManifest, acqVars, hdrVars,
                 nameVars, validatorVars, cliVars, joinVars, normVars, infoVars>>

ManifestNext == ValidateManifestCall

SpecManifest == ManifestInit /\ [][ManifestNext]_vars

ClaimIsString(v) == v.t = "string"
ClaimPresent(v) == v.t # "undefined"

\* the requirement on each field, in the order the fields are checked
ClaimFieldOrder == <<"name", "version", "manifest_version", "description", "permissions">>

ClaimFieldOk(f, field) ==
  CASE field = "name" ->
         ClaimIsString(f.name) /\ \E i \in 1..Len(f.name.s) : f.name.s[i] \notin {" ", "TAB"}
    [] field = "version" -> ClaimIsString(f.version) /\ Len(f.version.s) > 0
    [] field = "manifest_version" -> f.manifest_version.t = "number"
    [] field = "description" -> ClaimPresent(f.description) => ClaimIsString(f.description)
    [] field = "permissions" ->
         ClaimPresent(f.permissions) =>
           /\ f.permissions.t = "array"
           /\ ~\E i \in 1..Len(f.permissions.items) : ~ClaimIsString(f.permissions.items[i])

ClaimManifestAccepted(data) ==
  data.t = "object" /\ \A k \in 1..5 : ClaimFieldOk(data.fields, ClaimFieldOrder[k])

\* C24: validateManifest accepts its input iff it is a non-null object
\* whose name is a string that is non-empty after trimming, whose version is
\* a non-empty string, whose manifest_version is a number, whose description
\* (if present) is a string and whose permissions (if present) is an array
\* of strings only; otherwise it fails with ValidationError whose message
\* names the first offending field in the order name, version,
\* manifest_version, description, permissions.
C24_ManifestAcceptedIff ==
  pc = "validated" =>
    /\ manifestResult = IF ClaimManifestAccepted(rawManifest) THEN "ok" ELSE "ValidationError"
    /\ (rawManifest.t = "object" /\ ~ClaimManifestAccepted(rawManifest)) =>
         \E k \in 1..5 :
           /\ ~ClaimFieldOk(rawManifest.fields, ClaimFieldOrder[k])
           /\ \A j \in 1..(k - 1) : ClaimFieldOk(rawManifest.fields, ClaimFieldOrder[j])
           /\ manifestField = ClaimFieldOrder[k]

C24_Witness ==
  /\ pc = "validated"
  /\ manifestResult = "ValidationError"
  /\ manifestField = "permissions"
  /\ rawManifest.fields.permissions.t = "array"
  /\ rawManifest.fields.description = Undefined

\* C25: when validateManifest accepts, the manifest it returns has exactly
\* the fields and values of the input: unknown fields are preserved
\* unmodified and no field is added, removed or changed.
C25_ManifestPassedThrough ==
  (pc = "validated" /\ manifestResult = "ok") => manifest = rawManifest

C25_Witness ==
  /\ pc = "validated"
  /\ manifestResult = "ok"
  /\ manifest.fields.custom_field = Str(<<"c">>)
  /\ manifest.fields.permissions = Arr(<<Str(<<"p">>)>>)

(***************************************************************************)
(* ByteReader.                                                             *)
(***************************************************************************)
\* the value b0 + 2^8 b1 + 2^16 b2 + 2^24 b3 of the four bytes after offset
\* off, with 2^31 taken off when the top bit is set
ClaimTopBit(buf, off) == buf[off + 4] >= 128
ClaimLow31(buf, off) ==
  buf[off + 1] + 256 * buf[off + 2] + 65536 * buf[off + 3]
    + 16777216 * (buf[off + 4] % 128)

\* C26: readUInt32LEAt(buffer, offset) returns b[offset] + 2^8 b[offset+1]
\* + 2^16 b[offset+2] + 2^24 b[offset+3] as an unsigned value in 0..2^32-1
\* (never negative when the top bit is set) when offset + 4 <= len(buffer)
\* and fails with ValidationError when offset + 4 > len(buffer); the cursor
\* variant readUInt32LE advances the cursor by exactly 4 on success, leaves
\* the cursor unchanged on failure, and fails when no buffer is loaded.
C26_ReadUInt32LE ==
  [][readCalls' = readCalls + 1 =>
       /\ buffer = NoBuffer => (readResult' = "Error" /\ offset' = offset)
       /\ (buffer # NoBuffer /\ offset + 4 > Len(buffer)) =>
            (readResult' = "ValidationError" /\ offset' = offset)
       /\ (buffer # NoBuffer /\ offset + 4 <= Len(buffer)) =>
            /\ readResult' = "ok"
            /\ offset' = offset + 4
            /\ readValue'.lo \in 0..65535
            /\ readValue'.hi \in 0..65535
            /\ (readValue'.hi >= 32768) = ClaimTopBit(buffer, offset)
            /\ (readValue'.hi % 32768) * 65536 + readValue'.lo = ClaimLow31(buffer, offset)]_vars

C26_Witness ==
  /\ readCalls >= 1
  /\ readResult = "ok"
  /\ offset = 12
  /\ buffer[12] >= 128
  /\ readValue.hi >= 32768

(***************************************************************************)
(* No retry of the decompression.                                          *)
(***************************************************************************)
\* C27: the decompression utility is invoked at most once per extract()
\* run: after it fails or exits non-zero it is never invoked again for that
\* run (no automatic retry), and it is never invoked at all for a payload
\* that failed the security gate.  The run meant is unzip -q -o of
\* extractZip; the listing unzip -l of getZipInfo is the gate itself.
C27_NoDecompressionRetry ==
  /\ [](unzipCalls <= 1)
  /\ []((secResult \notin {"none", "pass"}) => unzipCalls = 0)
  /\ [][(unzipCalls >= 1 /\ unzipExit # 0) => unzipCalls' = unzipCalls]_vars

C27_Witness ==
  /\ pc = "rejected"
  /\ cleanupAttempted
  /\ failedAt = "unzip"
  /\ unzipCalls = 1
  /\ unzipExit # 0

(***************************************************************************)
(* Two executions that construct the same PathValidator in the same        *)
(* working directory, change their working directories independently and   *)
(* hand the same arguments to validatePath.                                *)
(***************************************************************************)
CwdInit ==
  /\ pc = "validatePath"
  /\ config = DEFAULT_CONFIG
  /\ outputDir = EmptyStr
  /\ \E roots \in AllowedRootLists, dir \in WorkingDirectories :
       /\ cwd = [e \in Executions |-> dir]
       /\ pathValidator = [e \in Executions |-> NewPathValidator(roots, dir)]
  /\ validateArgs = NoArgs
  /\ validation = [e \in Executions |-> NoValidation]
  /\ revalidation = [e \in Executions |-> NoValidation]
  /\ ZipInfoIdle
  /\ NormalizeIdle
  /\ JoinIdle
  /\ CliIdle
  /\ NotLoaded
  /\ hdrResult = "none"
  /\ HeaderIdle
  /\ NamesIdle
  /\ ManifestIdle
  /\ BeforeExtract

cwdFrame ==
  <<pc, config, outputDir, pathVars, mutations, fsVars, zipVars, errVars, cleanupAttempted,
    acqResult, hdrResult, manifestResult, manifestVars, acqVars, hdrVars, nameVars>>

\* process.chdir(dir) in one execution
Chdir(e, dir) ==
  /\ pc = "validatePath"
  /\ cwd' = [cwd EXCEPT ![e] = dir]
  /\ UNCHANGED <<pathValidator, validateArgs, validation, revalidation, cliVars, joinVars,
                 normVars, infoVars>>
  /\ UNCHANGED cwdFrame

\* validatePath(path, baseDir) called in both executions
ValidatePathCall(path, baseDir) ==
  /\ pc = "validatePath"
  /\ validateArgs' = [path |-> path, baseDir |-> baseDir]
  /\ validation' =
       [e \in Executions |-> ValidatePath(pathValidator[e], cwd[e], path, baseDir)]
  /\ revalidation' = [e \in Executions |-> NoValidation]
  /\ UNCHANGED <<cwd, pathValidator, cliVars, joinVars, normVars, infoVars>>
  /\ UNCHANGED cwdFrame

\* validatePath(p) called on the path p that the latest call returned, as
\* ensureDirectory does with a path that extract() has validated
ValidatePathAgain ==
  /\ pc = "validatePath"
  /\ \E e \in Executions : validation[e].result = "ok"
  /\ revalidation' =
       [e \in Executions |->
          IF validation[e].result = "ok"
          THEN ValidatePath(pathValidator[e], cwd[e], validation[e].path, EmptyStr)
          ELSE NoValidation]
  /\ UNCHANGED <<cwd, pathValidator, validateArgs, validation, cliVars, joinVars, normVars,
                 infoVars>>
  /\ UNCHANGED cwdFrame

CwdNext ==
  \/ \E e \in Executions, dir \in WorkingDirectories : Chdir(e, dir)
  \/ \E path \in ValidateCandidates, baseDir \in BaseDirs : ValidatePathCall(path, baseDir)
  \/ ValidatePathAgain

SpecCwd == CwdInit /\ [][CwdNext]_vars

ConstructorError(in) ==
  IF in = EmptyStr THEN "ValidationError" ELSE "none"

CliInit ==
  /\ pc = "runCLI"
  /\ args \in ArgVectors
  /\ logLevel = LogLevel.INFO
  /\ exitCode = NoExit
  /\ usagePrinted = FALSE
  /\ config = DEFAULT_CONFIG
  /\ outputDir = EmptyStr
  /\ input = EmptyStr
  /\ extensionId = NoId
  /\ mode = "none"
  /\ acqResult = "none"
  /\ hdrResult = "none"
  /\ buffer = NoBuffer
  /\ AcquisitionIdle
  /\ HeaderIdle
  /\ NamesIdle
  /\ ManifestIdle
  /\ ZipInfoIdle
  /\ NormalizeIdle
  /\ JoinIdle
  /\ ValidatorIdle
  /\ BeforeExtract

cliFrame ==
  <<config, pathVars, mutations, fsVars, zipVars, thrown, pending, errNamesFallback, failedAt,
    stages, cleanupAttempted, acqResult, hdrResult, manifestResult, manifestVars, extensionId,
    mode, timer, timeoutElapsed, response, existsRes, statRes, readRes, fileBytes, acqDetail,
    hdrVars, nameVars, validatorVars, args, joinVars, normVars, infoVars>>

\* runCLI up to the call of extract(): usage and exit, or a missing input
\* and exit, or the arguments parsed and the extractor constructed
RunCLI ==
  /\ pc = "runCLI"
  /\ IF WantsUsage(args)
     THEN /\ usagePrinted' = TRUE
          /\ exitCode' = 0
          /\ pc' = "exited"
          /\ UNCHANGED <<input, logLevel, outputDir, error, errorStream>>
     ELSE IF args[1] = EmptyStr
     THEN /\ errorStream' = Append(errorStream, Line("runCLI", "No input provided"))
          /\ exitCode' = 1
          /\ pc' = "exited"
          /\ UNCHANGED <<input, logLevel, outputDir, error, usagePrinted>>
     ELSE LET parsed == ParseArgs(args, 2, [outputDir |-> EmptyStr, logLevel |-> LogLevel.INFO])
              err == ConstructorError(args[1])
          IN /\ logLevel' = parsed.logLevel
             /\ outputDir' = parsed.outputDir
             /\ usagePrinted' = usagePrinted
             /\ IF err = "none"
                THEN /\ input' = args[1]
                     /\ pc' = "loadInput"
                     /\ UNCHANGED <<error, errorStream, exitCode>>
                ELSE /\ error' = err
                     /\ errorStream' = errorStream \o RunCLICatchLines(err, parsed.logLevel)
                     /\ exitCode' = 1
                     /\ pc' = "exited"
                     /\ input' = input
  /\ UNCHANGED cliFrame

\* extract() rejected: the catch block prints and calls process.exit(1)
RunCLICatch ==
  /\ pc = "rejected"
  /\ errorStream' = errorStream \o RunCLICatchLines(error, logLevel)
  /\ exitCode' = 1
  /\ pc' = "exited"
  /\ UNCHANGED <<input, logLevel, outputDir, error, usagePrinted>>
  /\ UNCHANGED cliFrame

\* extract() resolved: runCLI returns
RunCLIReturns ==
  /\ pc = "done"
  /\ pc' = "returned"
  /\ UNCHANGED <<input, logLevel, outputDir, error, usagePrinted, exitCode, errorStream>>
  /\ UNCHANGED cliFrame

CliNext ==
  \/ RunCLI
  \/ LoadInput
  \/ TimeoutElapses
  \/ FetchAborted
  \/ HeadersArrive
  \/ FetchFails
  \/ BodyComplete
  \/ BodyFails
  \/ ExistsSettles
  \/ StatSettles
  \/ ReadSettles
  \/ LocalJoin
  \/ ParseHeader
  \/ ValidateOutDir
  \/ EnsureParent
  \/ ClearOut
  \/ ValidateCrx
  \/ EnsureCrxDir
  \/ WriteCrx
  \/ EnsureTemp
  \/ WriteZip
  \/ ValidateZip
  \/ Unzip
  \/ Mv
  \/ Catch
  \/ Finally
  \/ ReadManifest
  \/ RunCLICatch
  \/ RunCLIReturns

SpecCLI == CliInit /\ [][CliNext]_vars

\* the lines runCLI itself handed to console.error
ClaimOwnLines == SelectSeq(errorStream, LAMBDA l : l.by = "runCLI")

\* extract() or the constructor threw and runCLI has dealt with it
ClaimThrew == pc = "exited" /\ error # "none"

\* the usage was asked for
ClaimUsageRun == pc = "exited" /\ WantsUsage(args)

\* the statement of C29 as the specification words it: one error line in
\* all on the error stream when extract() throws, none when it resolves
C29_OneErrorLineOrNone ==
  /\ ClaimThrew =>
       /\ exitCode = 1
       /\ Len(errorStream) = 1
       /\ error \in CRXErrors => errorStream[1].text = ErrorCode(error)
  /\ pc = "returned" => (exitCode = NoExit /\ errorStream = << >>)
  /\ ClaimUsageRun => (usagePrinted /\ exitCode = 0)

\* C29: runCLI exits with code 1 whenever constructing the extractor or
\* extract() throws (a CRXError, another Error or a value that is no
\* Error), after printing itself one error line that carries the error
\* code for a CRXError, followed by the stack of another Error at debug
\* level and preceded by what the extractor's logger wrote; when extract()
\* resolves it does not call process.exit and prints nothing itself on the
\* error stream, which holds at most warnings and the manifest parsing
\* error of the logger; with no arguments or with --help it prints the
\* usage and exits with code 0.
C29_RunCLIExit ==
  /\ ClaimThrew =>
       /\ exitCode = 1
       /\ Len(ClaimOwnLines) = (IF error = "Error" /\ logLevel = LogLevel.DEBUG THEN 2 ELSE 1)
       /\ error \in CRXErrors => ClaimOwnLines[1].text = ErrorCode(error)
       /\ Len(ClaimOwnLines) = 2 => ClaimOwnLines[2].text = "stack"
       /\ \A i \in 1..Len(errorStream) :
            errorStream[i].by = "runCLI" => i > Len(errorStream) - Len(ClaimOwnLines)
  /\ pc = "returned" =>
       /\ exitCode = NoExit
       /\ ClaimOwnLines = << >>
       /\ \A i \in 1..Len(errorStream) :
            errorStream[i].text \in {"manifest.json not found", "Failed to parse manifest",
                                     "Failed to clean up temp directory", "Stack"}
  /\ ClaimUsageRun => (usagePrinted /\ exitCode = 0 /\ errorStream = << >>)

C29_Witness ==
  /\ ClaimThrew
  /\ error = "DownloadError"
  /\ logLevel = LogLevel.DEBUG
  /\ Len(errorStream) > Len(ClaimOwnLines)

(***************************************************************************)
(* PathUtils.join as a function of its segments.                           *)
(***************************************************************************)
JoinInit ==
  /\ pc = "join"
  /\ config = DEFAULT_CONFIG
  /\ outputDir = EmptyStr
  /\ joinArgs \in JoinArgs
  /\ joinResult = EmptyStr
  /\ ZipInfoIdle
  /\ NormalizeIdle
  /\ NotLoaded
  /\ hdrResult = "none"
  /\ HeaderIdle
  /\ NamesIdle
  /\ ManifestIdle
  /\ CliIdle
  /\ ValidatorIdle
  /\ BeforeExtract

JoinCall ==
  /\ pc = "join"
  /\ joinResult' = Join(joinArgs)
  /\ pc' = "joined"
  /\ UNCHANGED <<config, outputDir, pathVars, mutations, fsVars, zipVars, errVars,
                 cleanupAttempted, acqResult, hdrResult, manifestResult, manifestVars, acqVars,
                 hdrVars, nameVars, validatorVars, cliVars, joinArgs, normVars, infoVars>>

JoinNext == JoinCall

SpecJoin == JoinInit /\ [][JoinNext]_vars

\* the parts of the concatenated segments
ClaimJoinParts == Split(JoinWithSlash(joinArgs))

\* every ".." has an ordinary segment before it to remove, and a name is
\* left in the end
ClaimResolvable(parts) ==
  /\ \A n \in 1..Len(parts) :
       parts[n] = <<DOT, DOT>> => Len(ClaimStack(parts, n - 1)) >= 1
  /\ Len(ClaimStack(parts, Len(parts))) >= 1

\* C30: PathUtils.join resolves the '../' and './' sequences of the joined
\* path: whenever the concatenated segments contain k consecutive '..'
\* segments preceded by at least k ordinary segments the result is the
\* lexically normalized path with those pairs removed (join('a/b', '../c')
\* = 'a/c', join('a/b/c', '../../d') = 'a/d'), and a leading './' is
\* dropped (join('./a', 'b') = 'a/b').
C30_JoinResolvesDots ==
  (pc = "joined" /\ ClaimResolvable(ClaimJoinParts)) =>
    joinResult = JoinWithSlash(ClaimStack(ClaimJoinParts, Len(ClaimJoinParts)))

(***************************************************************************)
(* PathUtils.normalize applied to a path and to its own result.            *)
(***************************************************************************)
NormalizeInit ==
  /\ pc = "normalize"
  /\ config = DEFAULT_CONFIG
  /\ outputDir = EmptyStr
  /\ normalizeArg \in NormalizeArgs
  /\ normalized = EmptyStr
  /\ renormalized = EmptyStr
  /\ ZipInfoIdle
  /\ NotLoaded
  /\ hdrResult = "none"
  /\ HeaderIdle
  /\ NamesIdle
  /\ ManifestIdle
  /\ JoinIdle
  /\ CliIdle
  /\ ValidatorIdle
  /\ BeforeExtract

normFrame ==
  <<config, outputDir, pathVars, mutations, fsVars, zipVars, errVars, cleanupAttempted,
    acqResult, hdrResult, manifestResult, manifestVars, acqVars, hdrVars, nameVars,
    validatorVars, cliVars, joinVars, normalizeArg, infoVars>>

NormalizeCall ==
  /\ pc = "normalize"
  /\ normalized' = Normalize(normalizeArg)
  /\ pc' = "renormalize"
  /\ UNCHANGED renormalized
  /\ UNCHANGED normFrame

NormalizeAgain ==
  /\ pc = "renormalize"
  /\ renormalized' = Normalize(normalized)
  /\ pc' = "normalized"
  /\ UNCHANGED normalized
  /\ UNCHANGED normFrame

NormalizeNext == NormalizeCall \/ NormalizeAgain

SpecNormalize == NormalizeInit /\ [][NormalizeNext]_vars

ClaimAbsolute(p) == Len(p) >= 1 /\ p[1] = SLASH

\* the segments of a path, the leading separator of an absolute one set aside
ClaimSegments(p) ==
  IF ClaimAbsolute(p)
  THEN (IF Len(p) = 1 THEN << >> ELSE Split(SubSeq(p, 2, Len(p))))
  ELSE Split(p)

\* C31: for every path, PathUtils.normalize returns a path with no '.', no
\* '..' and no empty segment; a '..' that would go above the root or above
\* an empty result is clamped (normalize('/a/../../b') = '/b',
\* normalize('..') = '.'); an absolute input stays absolute; an empty
\* result is '.'; and normalize is idempotent:
\* normalize(normalize(p)) = normalize(p).
C31_NormalizeCanonical ==
  pc = "normalized" =>
    LET names == ClaimStack(Split(normalizeArg), Len(Split(normalizeArg))) IN
    /\ normalized # EmptyStr
    /\ ClaimAbsolute(normalizeArg) => ClaimAbsolute(normalized)
    /\ (names = << >> /\ ~ClaimAbsolute(normalizeArg)) => normalized = <<DOT>>
    /\ normalized # <<DOT>> =>
         /\ ClaimSegments(normalized) = names
         /\ \A i \in 1..Len(ClaimSegments(normalized)) :
              ClaimSegments(normalized)[i] \notin {EmptyStr, <<DOT>>, <<DOT, DOT>>}
    /\ renormalized = normalized

C31_Witness ==
  /\ pc = "normalized"
  /\ normalizeArg = <<SLASH, "a", SLASH, DOT, DOT, SLASH, DOT, DOT, SLASH, "a">>
  /\ normalized = <<SLASH, "a">>

(***************************************************************************)
(* getZipInfo as a function of the listing and of the stat.                *)
(***************************************************************************)
ZipInfoInit ==
  /\ pc = "getZipInfo"
  /\ config = DEFAULT_CONFIG
  /\ outputDir = EmptyStr
  /\ listing \in Listings
  /\ stagedSize \in StagedSizes
  /\ infoResult = "none"
  /\ infoSummary = NoZipInfo
  /\ NormalizeIdle
  /\ NotLoaded
  /\ hdrResult = "none"
  /\ HeaderIdle
  /\ NamesIdle
  /\ ManifestIdle
  /\ JoinIdle
  /\ CliIdle
  /\ ValidatorIdle
  /\ BeforeExtract

GetZipInfoCall ==
  /\ pc = "getZipInfo"
  /\ infoResult' = GetZipInfo(listing, stagedSize).result
  /\ infoSummary' = GetZipInfo(listing, stagedSize).info
  /\ pc' = "gotZipInfo"
  /\ UNCHANGED <<config, outputDir, pathVars, mutations, fsVars, zipVars, errVars,
                 cleanupAttempted, acqResult, hdrResult, manifestResult, manifestVars, acqVars,
                 hdrVars, nameVars, validatorVars, cliVars, joinVars, normVars, listing,
                 stagedSize>>

ZipInfoNext == GetZipInfoCall

SpecZipInfo == ZipInfoInit /\ [][ZipInfoNext]_vars

\* the words of a line: its maximal runs of characters other than spaces
RECURSIVE ClaimWords(_)
ClaimWords(line) ==
  IF line = EmptyStr THEN << >>
  ELSE IF Head(line) = " " THEN ClaimWords(Tail(line))
  ELSE LET k == CHOOSE n \in 1..Len(line) :
                  /\ \A i \in 1..n : line[i] # " "
                  /\ (n = Len(line) \/ line[n + 1] = " ")
       IN <<SubSeq(line, 1, k)>> \o ClaimWords(From(line, k + 1))

ClaimNumber(w) == w # EmptyStr /\ \A i \in 1..Len(w) : IsDigit(w[i])

RECURSIVE ClaimDecimal(_)
ClaimDecimal(w) ==
  IF w = EmptyStr THEN 0 ELSE ClaimDecimal(SubSeq(w, 1, Len(w) - 1)) * 10 + DigitValue(w[Len(w)])

\* the line before the final line end of the listing
ClaimSummaryLine ==
  IF listing.ok /\ Len(listing.lines) >= 2 THEN listing.lines[Len(listing.lines) - 1]
  ELSE EmptyStr

\* the summary line reads "<size> <count> file..."
ClaimSummaryReadable ==
  LET w == ClaimWords(ClaimSummaryLine) IN
  /\ Len(w) >= 3
  /\ ClaimNumber(w[1])
  /\ ClaimNumber(w[2])
  /\ Len(w[3]) >= 4 /\ SubSeq(w[3], 1, 4) = <<"f", "i", "l", "e">>

\* C32: getZipInfo either returns a complete summary (file count and
\* uncompressed size taken from the listing's summary line, compressed size
\* taken from the staged file's size on disk) or fails: when the listing
\* command fails, the summary line cannot be parsed, or the stat fails, it
\* fails with an error and never returns a partial or defaulted summary.
C32_ZipInfoCompleteOrError ==
  pc = "gotZipInfo" =>
    IF listing.ok /\ ClaimSummaryReadable /\ stagedSize # StatFailed
    THEN /\ infoResult = "ok"
         /\ infoSummary.uncompressedSize = ClaimDecimal(ClaimWords(ClaimSummaryLine)[1])
         /\ infoSummary.fileCount = ClaimDecimal(ClaimWords(ClaimSummaryLine)[2])
         /\ infoSummary.compressedSize = stagedSize
    ELSE /\ infoResult = "ExtractionError"
         /\ infoSummary = NoZipInfo

C32_Witness ==
  /\ pc = "gotZipInfo"
  /\ infoResult = "ok"
  /\ infoSummary = [fileCount |-> 7, uncompressedSize |-> 71, compressedSize |-> 5]

(***************************************************************************)
(* The staged archive at the ratio check.                                  *)
(***************************************************************************)
\* C33: in every extract() run that reaches the ratio check the staged
\* archive is non-empty (compressedSize >= 1): the header is accepted only
\* when zipOffset < len(buffer) and the staged file is exactly the slice from
\* zipOffset to the end of the buffer, so the ratio never divides by zero.
C33_StagedArchiveNonEmpty ==
  secResult \notin {"none", "infoFail"} =>
    /\ header.zipOffset < Len(buffer)
    /\ zipInfo.compressedSize = Len(buffer) - header.zipOffset
    /\ zipInfo.compressedSize >= 1

C33_Witness ==
  /\ secResult = "pass"
  /\ header.zipOffset = 17
  /\ zipInfo.compressedSize = 1

(***************************************************************************)
(* The directory extract() clears.                                         *)
(***************************************************************************)
\* path lies below root and is not root
ClaimStrictlyBelow(path, root) ==
  /\ path # root
  /\ IF root = <<SLASH>> THEN StartsWith(path, root)
     ELSE StartsWith(path, root \o <<SLASH>>)

ClaimBelowSomeRoot(path, allowedPaths) ==
  \E i \in 1..Len(allowedPaths) :
    ClaimStrictlyBelow(path, Normalize(resolvedAllowedPaths(allowedPaths)[i]))

\* C34: the directory that extract() clears with rm -rf is always a strict
\* descendant of some allowed root and never an allowed root itself: for
\* every output argument and every list of allowed roots there is no
\* reachable state in which extract() deletes a directory that is not
\* strictly below an allowed root.
C34_ClearedDirStrictlyBelowRoot ==
  \A m \in mutations :
    m.op = "rm-mkdir" => ClaimBelowSomeRoot(m.path, config.allowedOutputPaths)

(***************************************************************************)
(* A sanitized name as the last segment of a path.                         *)
(***************************************************************************)
\* path is dir followed by one further segment
ClaimStrictChild(path, dir) ==
  /\ StartsWith(path, dir \o <<SLASH>>)
  /\ Len(path) > Len(dir) + 1
  /\ \A i \in (Len(dir) + 2)..Len(path) : path[i] # SLASH

\* C35: for every raw name, appending sanitizeFilename(raw) as one segment to
\* a directory d yields a path that normalizes to a strict child of d: the
\* sanitized name is never '.', never '..' and holds no separator, so the
\* default output directory extensionsDir/<name> is never extensionsDir
\* itself or a directory above it.
C35_SanitizedNameStrictChild ==
  pc = "sanitized" =>
    /\ sanitizedName \notin {<<DOT>>, <<DOT, DOT>>}
    /\ \A i \in 1..Len(sanitizedName) : sanitizedName[i] # SLASH
    /\ ClaimStrictChild(ValidatePathNormalized(Join(<<config.extensionsDir, sanitizedName>>)),
                        ValidatePathNormalized(config.extensionsDir))

(***************************************************************************)
(* The move out of the staging directory.                                  *)
(***************************************************************************)
\* C36: extract() reports success only if every entry the decompression
\* utility wrote into the staging directory, names starting with '.'
\* included, is present in the output directory afterwards: a move that fails
\* or skips entries never ends in a successful run whose entries are lost
\* when the staging directory is deleted.
C36_SuccessKeepsEveryEntry ==
  pc = "done" => (entriesWritten => published)

\* C37: after a successful extract() the output directory contains only
\* archive entries: the staged archive.zip, written into the staging
\* directory that is also the decompression target, is never moved into the
\* published output directory.
C37_ArchiveNotPublished ==
  pc = "done" => ~archivePublished

(***************************************************************************)
(* validatePath applied to its own result.                                 *)
(***************************************************************************)
\* C38: validatePath is idempotent on its own results: for every accepted
\* candidate p, given with or without a base directory,
\* validatePath(validatePath(p)) succeeds and returns the same path.
C38_ValidatePathIdempotent ==
  \A e \in Executions :
    (validation[e].result = "ok" /\ revalidation[e] # NoValidation)
      => revalidation[e] = validation[e]

C38_Witness ==
  /\ validateArgs.baseDir = <<"/", "w">>
  /\ validateArgs.path = <<"a", SLASH, DOT, DOT>>
  /\ validation[1] = [result |-> "ok", path |-> workingDirectory]
  /\ revalidation[1].result = "ok"

====
